---- MODULE Spec2Model ----
(***************************************************************************)
(* The Hydra dependency-injection container (Hydra.ts), its element        *)
(* discovery (DataAttributes.ts, View.ts) and its boot sequence, as a      *)
(* state machine.  JavaScript values are tagged records [t, v]; JavaScript *)
(* objects whose key order matters (the definition maps and the instance   *)
(* registries) are sequences of entries in insertion order.                *)
(***************************************************************************)
EXTENDS Integers, Sequences, FiniteSets, TLC

VARIABLES
  created,                    \* window.hydra is set
  containersCreated,          \* number of `new Hydra()` evaluated
  onloadInstalls,             \* number of assignments to window.onload
  dom,                        \* the document the page was loaded with
  serviceDefinitions,         \* Hydra.serviceDefinitions, insertion order
  mediatorDefinitions,        \* Hydra.mediatorDefinitions, insertion order
  pageControllerDefinitions,  \* Hydra.pageControllerDefinitions, insertion order
  services,                   \* Hydra.services, insertion order
  mediators,                  \* Hydra.mediators, insertion order
  pageControllers,            \* Hydra.pageControllers, insertion order
  heap,                       \* every constructor call made so far, in call order
  resolutions,                \* every dependency lookup that returned, in call order
  constructions,              \* every construction begun, in call order
  loads,                      \* every load() call made so far, in call order
  pc,                         \* where the running boot() is suspended
  boots,                      \* the outcome of every boot() call, in call order
  regCalls,                   \* number of register* calls made so far, per method
  components,                 \* Hydra.components, insertion order
  instanceCalls,              \* every register*Instance call with a name, in call order
  listeners,                  \* AbstractMediator.#listeners of one Mediator
  subscriptions,              \* every subscription to a fromEvent observable
  mediatorCalls,              \* every call on the Mediator's event system, in call order
  children,                   \* the child nodes of each element of the parent Component
  hydraComponent,             \* the hydraComponent property of each root element
  destroyed,                  \* number of destroy() calls, per Component
  componentCalls              \* every add/removeSubComponent call, in call order

vars == <<created, containersCreated, onloadInstalls, dom,
          serviceDefinitions, mediatorDefinitions, pageControllerDefinitions,
          services, mediators, pageControllers, heap, resolutions, constructions, loads,
          pc, boots, regCalls, components, instanceCalls,
          listeners, subscriptions, mediatorCalls,
          children, hydraComponent, destroyed, componentCalls>>

\* ------------------------------------------------------------------ bounds

MaxRegs == 3
MaxBoots == 2
MaxDepth == 3

\* ------------------------------------------------------- JavaScript values

Undefined == [t |-> "undefined", v |-> 0]
Null == [t |-> "null", v |-> 0]
True == [t |-> "boolean", v |-> TRUE]
False == [t |-> "boolean", v |-> FALSE]
Num(n) == [t |-> "number", v |-> n]
Str(s) == [t |-> "string", v |-> s]
Fn(c) == [t |-> "function", v |-> c]
Obj(r) == [t |-> "object", v |-> r]
Arr(s) == [t |-> "array", v |-> s]
Elem(n) == [t |-> "element", v |-> n]
Inst(i) == [t |-> "instance", v |-> i]

\* the state of one Mediator's event system
listenerVars == <<listeners, subscriptions, mediatorCalls>>

\* a parent Component and the Components added to its elements
subComponentVars == <<children, hydraComponent, destroyed, componentCalls>>

\* the Components that can be added to the parent
SubComponents == {"track1", "track2", "track3"}

\* the elements of the parent that take them
ParentElements == {"tracks", "headers"}

\* this.rootElement: every Component is constructed on an element of its own
rootElement(c) == [root |-> c]

\* the parent and the SubComponents are constructed, nothing is added yet
InitSubComponents ==
  /\ children = [e \in ParentElements |-> << >>]
  /\ hydraComponent = [r \in {rootElement(c) : c \in SubComponents} |-> Inst(r.root)]
  /\ destroyed = [c \in SubComponents |-> 0]
  /\ componentCalls = << >>

\* what the boot sequence and the register* calls for definitions leave alone
outside == <<components, instanceCalls, listenerVars, subComponentVars>>

InitListeners ==
  /\ listeners = << >>
  /\ subscriptions = << >>
  /\ mediatorCalls = << >>

InitOutside ==
  /\ components = << >>
  /\ instanceCalls = << >>
  /\ InitListeners
  /\ InitSubComponents

\* ToBoolean
Truthy(x) ==
  CASE x.t = "undefined" -> FALSE
    [] x.t = "null" -> FALSE
    [] x.t = "boolean" -> x.v
    [] x.t = "number" -> x.v # 0
    [] x.t = "string" -> x.v # ""
    [] OTHER -> TRUE

\* `k in o` for a plain object
In(k, o) == o.t = "object" /\ k \in DOMAIN o.v

\* o.k : undefined when the property is absent or o is a primitive
Get(o, k) == IF In(k, o) THEN o.v[k] ELSE Undefined

\* the outcome of a call that touches no container state: a value or a throw
Ok(x) == [ok |-> TRUE, val |-> x]
Throw == [ok |-> FALSE, val |-> Undefined]

\* const x = ...; K(x)
With(x, K(_)) == K(x)

\* K(r.val) unless r threw
Then(r, K(_)) == IF r.ok THEN K(r.val) ELSE Throw

\* an object built property by property from calls that may throw
Collect(rs) ==
  IF \E p \in DOMAIN rs : ~rs[p].ok THEN Throw
  ELSE Ok(Obj([p \in DOMAIN rs |-> rs[p].val]))

\* ------------------------------------------------------------------ classes
\* A class is named by an identifier; two classes may carry the same
\* constructor.name.  Services may lack a load method; a constructor may throw.

ServiceClasses == {"Cache", "Data", "Broken"}
MediatorClasses == {"Form", "Banner", "OtherForm"}
PageControllerClasses == {"Home", "Admin"}

\* constructor.name: OtherForm is a second class declared as `class Form`
ClassName(c) == IF c = "OtherForm" THEN "Form" ELSE c

\* typeof instance.load === 'function'
HasLoad(c) == c # "Data"

\* the constructor body throws
CtorThrows(c) == c \in {"Admin", "Broken"}

\* ------------------------------------------------ dependency declarations

\* service(serviceType)
service(c) == Obj([serviceType |-> Fn(c)])

\* mediator(mediatorType, options)
mediator(c, options) == Obj([mediatorType |-> Fn(c), options |-> options])

\* value(v)
value(x) == Obj([value |-> x])

\* htmlElementDescriptor(selector, type)
htmlElementDescriptor(sel, type) ==
  Obj([selector |-> sel, type |-> Fn(type), collection |-> False])

\* htmlElementCollectionDescriptor(selector, type)
htmlElementCollectionDescriptor(sel, type) ==
  Obj([selector |-> sel, type |-> Fn(type), collection |-> True])

\* selector(cssSelector, type)
selector(css, type) ==
  Obj([__selector |-> True, __collection |-> False, type |-> Fn(type), selector |-> Str(css)])

\* selectorAll(cssSelector, type)
selectorAll(css, type) ==
  Obj([__selector |-> True, __collection |-> True, type |-> Fn(type), selector |-> Str(css)])

\* collection(type)
collection(type) == Obj([__collection |-> True, type |-> Fn(type)])

\* elements(definition)
elements(definition) == Obj([__elementSchema |-> True, definition |-> Obj(definition)])

\* { qualifier: q }
Qualified(q) == Obj([qualifier |-> Str(q)])

isServiceDependencyDefinition(d) == Get(d, "serviceType") # Undefined

isMediatorDependencyDefinition(d) == In("mediatorType", d)

isElementSchema(x) == In("__elementSchema", x)

isElementWithSelector(entry) == In("__selector", entry) /\ entry.v["__selector"] = True

isElementCollection(entry) == In("__collection", entry) /\ entry.v["__collection"] = True

isHTMLElementDescriptor(m) ==
  /\ Truthy(m)
  /\ Truthy(Get(m, "selector"))
  /\ Truthy(Get(m, "type"))
  /\ Get(m, "collection") = False

isHTMLElementCollectionDescriptor(m) ==
  /\ Truthy(m)
  /\ Truthy(Get(m, "selector"))
  /\ Truthy(Get(m, "type"))
  /\ Get(m, "collection") = True

\* Object.entries(elementContainer).every(...)
isPageElementContainer(c) ==
  \A k \in (IF c.t = "object" THEN DOMAIN c.v ELSE {}) :
    isHTMLElementDescriptor(c.v[k]) \/ isHTMLElementCollectionDescriptor(c.v[k])

isValueDependencyDefinition(d) == Get(d, "value") # Undefined

\* ---------------------------------------------------------------- documents
\* A document is the sequence of its elements in document order; parent = 0
\* for a child of the document.  attrs holds only the attributes present.

Node(tag, parent, attrs) == [tag |-> tag, parent |-> parent, attrs |-> attrs]

DocQualified ==
  << Node("HTMLDivElement", 0, [id |-> "banner", mediator |-> "Banner", element |-> "container"]),
     Node("HTMLFormElement", 0, [id |-> "a", mediator |-> "Form", qualifier |-> "a"]),
     Node("HTMLInputElement", 2, [element |-> "input", class |-> "field"]),
     Node("HTMLFormElement", 0, [id |-> "b", mediator |-> "Form", qualifier |-> "b"]),
     Node("HTMLInputElement", 4, [element |-> "input", class |-> "field"]),
     Node("HTMLInputElement", 4, [element |-> "input", class |-> "field"]) >>

Documents == {DocQualified}

HasAttr(n, a) == a \in DOMAIN n.attrs

\* Element.getAttribute: null when absent
getAttribute(n, a) == IF HasAttr(n, a) THEN Str(n.attrs[a]) ELSE Null

\* element instanceof type
InstanceOfElement(n, type) == type \in {"HTMLElement", "Element", n.tag}

RECURSIVE IsDescendant(_, _, _)
IsDescendant(d, i, root) ==
  IF root = 0 THEN TRUE
  ELSE IF d[i].parent = 0 THEN FALSE
  ELSE d[i].parent = root \/ IsDescendant(d, d[i].parent, root)

NodeIds(d) == [i \in 1..Len(d) |-> i]

\* the selectors in use: "#id" and ".class"
Matches(n, css) ==
  \/ HasAttr(n, "id") /\ css = "#" \o n.attrs["id"]
  \/ HasAttr(n, "class") /\ css = "." \o n.attrs["class"]

\* rootElement.querySelectorAll(css), in document order
querySelectorAll(d, root, css) ==
  SelectSeq(NodeIds(d), LAMBDA i : IsDescendant(d, i, root) /\ Matches(d[i], css))

\* rootElement.querySelectorAll(`[${attr}]`) without the empty values the
\* callers skip, in document order
querySelectorAllAttr(d, root, attr) ==
  SelectSeq(NodeIds(d), LAMBDA i :
    IsDescendant(d, i, root) /\ HasAttr(d[i], attr) /\ d[i].attrs[attr] # "")

getFirstElementBySelector(d, css, type, root) ==
  With(querySelectorAll(d, root, css), LAMBDA found :
    IF found # << >> /\ InstanceOfElement(d[found[1]], type)
    THEN Ok(Elem(found[1]))
    ELSE Throw)

getAllElementsBySelector(d, css, type, root) ==
  With(querySelectorAll(d, root, css), LAMBDA found :
    IF \A k \in 1..Len(found) : InstanceOfElement(d[found[k]], type)
    THEN Ok(Arr([k \in 1..Len(found) |-> Elem(found[k])]))
    ELSE Throw)

\* the property names every object literal inherits from Object.prototype:
\* elements[name] is a function before anything is assigned to it
ObjectPrototype == {"toString", "constructor"}

\* what elements[propertyName] holds after the forEach over the element
\* nodes g of one property name, and the root when no node carried the name
ElementOrArray(g, root) ==
  IF g = << >> THEN Elem(root)
  ELSE IF Len(g) = 1 THEN Elem(g[1])
  ELSE Arr([k \in 1..Len(g) |-> Elem(g[k])])

\* the same for an inherited name: the first node finds elements[name] truthy
\* and not an array, and makes the pair of the inherited function and itself
InheritedAndNodes(name, g) ==
  Arr(<<Fn(name)>> \o [k \in 1..Len(g) |-> Elem(g[k])])

\* obj[name] for an object literal with the own properties own
Property(own, name) ==
  IF name \in DOMAIN own THEN own[name]
  ELSE IF name \in ObjectPrototype THEN Fn(name) ELSE Undefined

\* the elements record discoverMediators builds for one Mediator root, given
\* the marked descendants and the root's own element attribute
CollectElements(d, root, marked, rootName) ==
  [p \in {d[marked[k]].attrs["element"] : k \in 1..Len(marked)}
         \cup (IF Truthy(rootName) /\ rootName.v \notin ObjectPrototype
               THEN {rootName.v} ELSE {}) |->
     IF p \in ObjectPrototype
     THEN InheritedAndNodes(p, SelectSeq(marked, LAMBDA i : d[i].attrs["element"] = p))
     ELSE ElementOrArray(SelectSeq(marked, LAMBDA i : d[i].attrs["element"] = p), root)]

DiscoveredMediator(d, root) ==
  [name |-> d[root].attrs["mediator"],
   qualifier |-> IF HasAttr(d[root], "qualifier")
                 THEN Str(d[root].attrs["qualifier"]) ELSE Undefined,
   rootElement |-> root,
   elements |-> CollectElements(d, root, querySelectorAllAttr(d, root, "element"),
                                getAttribute(d[root], "element"))]

discoverMediators(d) ==
  With(querySelectorAllAttr(d, 0, "mediator"), LAMBDA roots :
    [k \in 1..Len(roots) |-> DiscoveredMediator(d, roots[k])])

\* the first Mediator of the name, whatever its qualifier
findMediatorByName(discovered, mediatorName, qualifier) ==
  With(SelectSeq(discovered, LAMBDA p : p.name = mediatorName),
       LAMBDA hits : SubSeq(hits, 1, IF hits = << >> THEN 0 ELSE 1))

\* Array.prototype.find: the first match, as a sequence of length 0 or 1
findMediator(discovered, mediatorName, qualifier) ==
  With(SelectSeq(discovered, LAMBDA p :
         /\ p.name = mediatorName
         /\ (qualifier = Undefined \/ p.qualifier = qualifier)),
       LAMBDA hits : SubSeq(hits, 1, IF hits = << >> THEN 0 ELSE 1))

\* ------------------------------------------------------- element resolution

\* assertElementType letting a missing element through
assertElementTypeIfFound(element, expectedType, d) ==
  IF element = Undefined THEN Ok(Undefined)
  ELSE IF element.t = "array" THEN Throw
  ELSE IF element.t # "element" THEN Throw
  ELSE IF ~InstanceOfElement(d[element.v], expectedType) THEN Throw
  ELSE Ok(element)

\* assertElementType without the instanceof test
assertElementPresent(element, expectedType, d) ==
  IF element = Undefined THEN Throw
  ELSE IF element.t = "array" THEN Throw
  ELSE Ok(element)

assertElementType(element, expectedType, d) ==
  IF element = Undefined THEN Throw
  ELSE IF element.t = "array" THEN Throw
  ELSE IF element.t # "element" THEN Throw
  ELSE IF ~InstanceOfElement(d[element.v], expectedType) THEN Throw
  ELSE Ok(element)

assertElementTypes(els, expectedType, d) ==
  IF els = Undefined THEN Throw
  ELSE LET array == IF els.t = "array" THEN els.v ELSE <<els>> IN
       IF \E k \in 1..Len(array) :
            array[k].t # "element" \/ ~InstanceOfElement(d[array[k].v], expectedType)
       THEN Throw
       ELSE Ok(Arr(array))

getEntryType(entry) == IF entry.t = "function" THEN entry.v ELSE Get(entry, "type").v

\* mediatorName and qualifier are JavaScript values (a string or undefined)
discoverElementsFromDataAttributes(d, mediatorName, qualifier) ==
  IF ~Truthy(mediatorName) THEN Throw
  ELSE With(findMediator(discoverMediators(d), mediatorName.v, qualifier), LAMBDA m :
         IF m = << >> THEN Throw ELSE Ok(m[1].elements))

\* the first pass looking under a root element instead of the document
resolveBySelectorUnder(d, entry, root) ==
  IF entry.v["__collection"] = True
  THEN getAllElementsBySelector(d, entry.v["selector"].v, entry.v["type"].v, root)
  ELSE getFirstElementBySelector(d, entry.v["selector"].v, entry.v["type"].v, root)

\* the first pass of resolveElementsFromSchema for one selector entry
resolveBySelector(d, entry) ==
  IF entry.v["__collection"] = True
  THEN getAllElementsBySelector(d, entry.v["selector"].v, entry.v["type"].v, 0)
  ELSE getFirstElementBySelector(d, entry.v["selector"].v, entry.v["type"].v, 0)

\* the second pass for the other entries: discovered[propertyName]
fromDiscovered(def, discovered) ==
  IF ~discovered.ok THEN [p \in DOMAIN def |-> Throw]
  ELSE [p \in DOMAIN def |-> Ok(Property(discovered.val, p))]

\* the selector entries looked up under the marker root of the Mediator
resolveSchemaDefinitionUnderRoot(d, def, mediatorName, qualifier) ==
  With(IF Truthy(mediatorName)
       THEN findMediator(discoverMediators(d), mediatorName.v, qualifier) ELSE << >>,
       LAMBDA m :
    IF m = << >> THEN Throw
    ELSE Collect([p \in DOMAIN def |->
                    IF isElementWithSelector(def[p])
                    THEN resolveBySelectorUnder(d, def[p], m[1].rootElement)
                    ELSE Ok(Property(m[1].elements, p))]))

resolveSchemaDefinition(d, def, mediatorName, qualifier) ==
  IF \A p \in DOMAIN def : isElementWithSelector(def[p])
  THEN Collect([p \in DOMAIN def |-> resolveBySelector(d, def[p])])
  ELSE With(fromDiscovered(def, discoverElementsFromDataAttributes(d, mediatorName, qualifier)),
            LAMBDA byAttribute :
              Collect([p \in DOMAIN def |->
                         IF isElementWithSelector(def[p])
                         THEN resolveBySelector(d, def[p]) ELSE byAttribute[p]]))

resolveElementsFromSchema(d, schema, mediatorName, qualifier) ==
  resolveSchemaDefinition(d, Get(schema, "definition").v, mediatorName, qualifier)

\* validateElementsAgainstSchema returning the attribute entries only
validateAttributeEntries(found, schema, d) ==
  With(Get(schema, "definition").v, LAMBDA def :
    Collect([p \in {q \in DOMAIN def : ~isElementWithSelector(def[q])} |->
               IF isElementCollection(def[p])
               THEN assertElementTypes(found.v[p], getEntryType(def[p]), d)
               ELSE assertElementType(found.v[p], getEntryType(def[p]), d)]))

validateElementsAgainstSchema(found, schema, d) ==
  With(Get(schema, "definition").v, LAMBDA def :
    Collect([p \in DOMAIN def |->
               IF isElementCollection(def[p])
               THEN assertElementTypes(found.v[p], getEntryType(def[p]), d)
               ELSE assertElementType(found.v[p], getEntryType(def[p]), d)]))

\* a selector: a string, or the function (options) => '#' + options.qualifier
ApplySelector(sel, options) ==
  IF sel.t # "function" THEN Ok(sel.v)
  ELSE IF options.t # "object" THEN Throw
  ELSE IF ~In("qualifier", options) THEN Ok("#undefined")
  ELSE Ok("#" \o options.v["qualifier"].v)

getHTMLElement(desc, d, root, options) ==
  Then(ApplySelector(desc.v["selector"], options), LAMBDA css :
    getFirstElementBySelector(d, css, desc.v["type"].v, root))

getHTMLElements(desc, d, root, options) ==
  Then(ApplySelector(desc.v["selector"], options), LAMBDA css :
    getAllElementsBySelector(d, css, desc.v["type"].v, root))

pageElements(container, d, root, options) ==
  Collect([p \in DOMAIN container.v |->
             IF isHTMLElementDescriptor(container.v[p])
             THEN getHTMLElement(container.v[p], d, root, options)
             ELSE getHTMLElements(container.v[p], d, root, options)])

\* ------------------------------------------------------------ the container
\* A definition map or registry is a sequence of entries in insertion order,
\* the order Object.entries and Object.values follow.

Keys(map) == {map[k].key : k \in 1..Len(map)}

\* map[key]
Lookup(map, key) ==
  IF \E k \in 1..Len(map) : map[k].key = key
  THEN (CHOOSE e \in {map[k] : k \in 1..Len(map)} : e.key = key).val
  ELSE Undefined

\* map[key] = val : an existing key keeps its position
Put(map, key, val) ==
  IF key \in Keys(map)
  THEN [k \in 1..Len(map) |-> IF map[k].key = key THEN [key |-> key, val |-> val] ELSE map[k]]
  ELSE Append(map, [key |-> key, val |-> val])

\* [constructor, dependencies] as stored by register*; call is the ordinal of
\* the register* call that stored it, first the ordinal of the call that
\* created the key
Definition(ctor, deps, call, first) ==
  [ctor |-> ctor, deps |-> deps, call |-> call, first |-> first]

\* a name already registered keeps its definition
RegisterOnce(definitions, ctor, deps, call) ==
  IF ClassName(ctor) \in Keys(definitions) THEN definitions
  ELSE Append(definitions, [key |-> ClassName(ctor), val |-> Definition(ctor, deps, call, call)])

\* a registration that looks at its declarations and throws, storing nothing,
\* when one of them is of no kind resolveDependencies knows
RegisterValidated(definitions, ctor, deps, call) ==
  IF \E i \in 1..Len(deps) :
       ~(\/ isServiceDependencyDefinition(deps[i])
         \/ isMediatorDependencyDefinition(deps[i])
         \/ isElementSchema(deps[i])
         \/ isPageElementContainer(deps[i])
         \/ isValueDependencyDefinition(deps[i]))
  THEN definitions
  ELSE Append(SelectSeq(definitions, LAMBDA e : e.key # ClassName(ctor)),
              [key |-> ClassName(ctor), val |-> Definition(ctor, deps, call, call)])

\* definitions[constructor.name] = [constructor, dependencies]
Register(definitions, ctor, deps, call) ==
  Put(definitions, ClassName(ctor),
      Definition(ctor, deps, call,
                 IF ClassName(ctor) \in Keys(definitions)
                 THEN Lookup(definitions, ClassName(ctor)).first ELSE call))

\* the key without the name
getKeyOfType(ctor, name) == ClassName(ctor)

getKey(ctor, name) ==
  IF Truthy(name) THEN name.v \o "_" \o ClassName(ctor) ELSE ClassName(ctor)

\* the container state one synchronous call chain works on; threw = an
\* exception is propagating out of the chain
Ctx(sv, md, pcs, hp, rs, cs, d, mdefs, nr) ==
  [services |-> sv, mediators |-> md, pageControllers |-> pcs, heap |-> hp,
   resolutions |-> rs, constructions |-> cs, open |-> {}, dom |-> d,
   mediatorDefinitions |-> mdefs, boot |-> nr, threw |-> FALSE]

\* construct* has found no instance under key and goes on to build one: open
\* holds the keys whose construction is on the call stack
Enter(ctx, kind, key) ==
  [ctx EXCEPT !.constructions = Append(@, [kind |-> kind, key |-> key, boot |-> ctx.boot,
                                           open |-> ctx.open]),
              !.open = @ \cup {<<kind, key>>}]

\* throw
Raise(ctx) == [st |-> [ctx EXCEPT !.threw = TRUE], val |-> Undefined]

\* return x
Return(ctx, x) == [st |-> ctx, val |-> x]

\* K(r) unless an exception propagates out of r
AndThen(r, K(_)) == IF r.st.threw THEN r ELSE K(r)

\* dependencies.push(r) for a call r that touches no container state
Push(ctx, r) == IF r.ok THEN Return(ctx, <<r.val>>) ELSE Raise(ctx)

\* r, the lookup of declaration decl, returned: its value is what the caller
\* pushes
Resolved(r, decl) ==
  IF r.st.threw THEN r
  ELSE Return([r.st EXCEPT !.resolutions =
                 Append(@, [decl |-> decl, val |-> r.val, boot |-> r.st.boot])],
              <<r.val>>)

\* a call r that touches no container state: its value, or its exception
Call(ctx, r) == IF r.ok THEN Return(ctx, r.val) ELSE Raise(ctx)

\* new ctor(...args): the call is recorded whether or not the body throws
New(ctx, ctor, args, deps) ==
  IF CtorThrows(ctor)
  THEN Raise([ctx EXCEPT !.heap = Append(@, [cls |-> ctor, args |-> args, deps |-> deps,
                                              boot |-> ctx.boot, ok |-> FALSE,
                                              by |-> "container"])])
  ELSE Return([ctx EXCEPT !.heap = Append(@, [cls |-> ctor, args |-> args, deps |-> deps,
                                               boot |-> ctx.boot, ok |-> TRUE,
                                               by |-> "container"])],
              Inst(Len(ctx.heap) + 1))

\* serv instanceof serviceType
InstanceOf(hp, x, ctor) == x.t = "instance" /\ hp[x.v].cls = ctor

\* the registry entry returned without the test
getServiceInstanceUnchecked(sv, hp, serviceType, name) ==
  Ok(Lookup(sv, getKey(serviceType, name)))

getServiceInstance(sv, hp, serviceType, name) ==
  With(Lookup(sv, getKey(serviceType, name)), LAMBDA serv :
    IF ~Truthy(serv) \/ ~InstanceOf(hp, serv, serviceType) THEN Throw ELSE Ok(serv))

\* parameters.map(...) of constructService, from parameter i on
RECURSIVE ServiceArguments(_, _, _, _)
ServiceArguments(ctx, parameters, i, acc) ==
  IF i > Len(parameters) THEN Return(ctx, acc)
  ELSE AndThen(
         IF isServiceDependencyDefinition(parameters[i])
         THEN Resolved(Call(ctx, getServiceInstance(ctx.services, ctx.heap,
                                                    parameters[i].v["serviceType"].v,
                                                    Undefined)),
                       parameters[i])
         ELSE Return(ctx, <<Get(parameters[i], "value")>>),
         LAMBDA r : ServiceArguments(r.st, parameters, i + 1, acc \o r.val))

\* this.services[name] = new serviceConstructor(...dependencies)
StoreService(made, name) ==
  Return([made.st EXCEPT !.services = Put(@, name, made.val),
                         !.open = @ \ {<<"service", name>>}],
         made.val)

\* constructService without the alreadyLoaded test
constructServiceAnew(ctx, serviceConstructor, parameters) ==
  AndThen(ServiceArguments(Enter(ctx, "service", ClassName(serviceConstructor)),
                           parameters, 1, << >>),
          LAMBDA dependencies :
    AndThen(New(dependencies.st, serviceConstructor, dependencies.val, parameters),
            LAMBDA made :
      StoreService(made, ClassName(serviceConstructor))))

constructService(ctx, serviceConstructor, parameters) ==
  IF Truthy(Lookup(ctx.services, ClassName(serviceConstructor)))
  THEN Return(ctx, Lookup(ctx.services, ClassName(serviceConstructor)))
  ELSE AndThen(ServiceArguments(Enter(ctx, "service", ClassName(serviceConstructor)),
                                parameters, 1, << >>),
               LAMBDA dependencies :
         AndThen(New(dependencies.st, serviceConstructor, dependencies.val, parameters),
                 LAMBDA made :
           StoreService(made, ClassName(serviceConstructor))))

\* options?.qualifier
QualifierOf(options) == IF options.t = "object" THEN Get(options, "qualifier") ELSE Undefined

\* the key without the qualifier suffix
MediatorKeyUnqualified(ctor, options) == ClassName(ctor)

\* `${mediatorConstructor.name}${nameSuffix}`
MediatorKey(ctor, options) ==
  IF Truthy(QualifierOf(options))
  THEN ClassName(ctor) \o "_" \o QualifierOf(options).v
  ELSE ClassName(ctor)

\* the instance returned and not stored
StoreMediatorNowhere(made, mediatorName) ==
  Return([made.st EXCEPT !.open = @ \ {<<"mediator", mediatorName>>}], made.val)

\* this.mediators[mediatorName] = constructed
StoreMediator(made, mediatorName) ==
  Return([made.st EXCEPT !.mediators = Put(@, mediatorName, made.val),
                         !.open = @ \ {<<"mediator", mediatorName>>}],
         made.val)

\* this.pageControllers[constructor.name] = new constructor(...dependencies)
StorePageController(made, name) ==
  Return([made.st EXCEPT !.pageControllers = Put(@, name, made.val),
                         !.open = @ \ {<<"pageController", name>>}],
         made.val)

RECURSIVE constructMediator(_, _, _, _, _)
RECURSIVE getMediatorInstance(_, _, _)
RECURSIVE resolveFrom(_, _, _, _, _, _, _)
RECURSIVE resolveOne(_, _, _, _, _)

\* one pass of the for loop of resolveDependencies: what parameter param
\* pushes (nothing when no branch matches)
resolveOne(ctx, param, options, mediatorName, depth) ==
  IF isServiceDependencyDefinition(param) THEN
    Resolved(Call(ctx, getServiceInstance(ctx.services, ctx.heap,
                                          param.v["serviceType"].v, Undefined)),
             param)
  ELSE IF isMediatorDependencyDefinition(param) THEN
    Resolved(getMediatorInstance(ctx, param, depth), param)
  ELSE IF isElementSchema(param) THEN
    Push(ctx, Then(resolveElementsFromSchema(ctx.dom, param, mediatorName, QualifierOf(options)),
                   LAMBDA resolved : validateElementsAgainstSchema(resolved, param, ctx.dom)))
  ELSE IF isPageElementContainer(param) THEN
    Push(ctx, pageElements(param, ctx.dom, 0, options))
  ELSE IF isValueDependencyDefinition(param) THEN Return(ctx, <<param.v["value"]>>)
  ELSE Return(ctx, << >>)

\* the for loop of resolveDependencies from parameter i on; acc holds the
\* dependencies pushed so far
resolveFrom(ctx, parameters, i, acc, options, mediatorName, depth) ==
  IF i > Len(parameters) THEN Return(ctx, acc)
  ELSE AndThen(resolveOne(ctx, parameters[i], options, mediatorName, depth), LAMBDA r :
         resolveFrom(r.st, parameters, i + 1, acc \o r.val, options, mediatorName, depth))

resolveDependencies(ctx, parameters, options, mediatorName, depth) ==
  resolveFrom(ctx, parameters, 1, << >>, options, mediatorName, depth)

\* depth counts the constructMediator frames on the stack; a chain deeper
\* than MaxDepth stands for "Maximum call stack size exceeded"
constructMediator(ctx, mediatorConstructor, parameters, options, depth) ==
  IF Truthy(Lookup(ctx.mediators, MediatorKey(mediatorConstructor, options)))
  THEN Return(ctx, Lookup(ctx.mediators, MediatorKey(mediatorConstructor, options)))
  ELSE IF depth >= MaxDepth
  THEN Raise(Enter(ctx, "mediator", MediatorKey(mediatorConstructor, options)))
  ELSE AndThen(resolveDependencies(Enter(ctx, "mediator",
                                         MediatorKey(mediatorConstructor, options)),
                                   parameters, options,
                                   Str(ClassName(mediatorConstructor)), depth + 1),
               LAMBDA dependencies :
         AndThen(New(dependencies.st, mediatorConstructor,
                     Append(dependencies.val, options), parameters),
                 LAMBDA made : StoreMediator(made, MediatorKey(mediatorConstructor, options))))

getMediatorInstance(ctx, definition, depth) ==
  With(Lookup(ctx.mediatorDefinitions, ClassName(definition.v["mediatorType"].v)), LAMBDA md :
    IF md = Undefined THEN Raise(ctx)
    ELSE constructMediator(ctx, md.ctor, md.deps, Get(definition, "options"), depth))

constructPageController(ctx, constructor, parameters) ==
  IF Truthy(Lookup(ctx.pageControllers, ClassName(constructor)))
  THEN Return(ctx, Lookup(ctx.pageControllers, ClassName(constructor)))
  ELSE AndThen(resolveDependencies(Enter(ctx, "pageController", ClassName(constructor)),
                                   parameters, Undefined, Undefined, 0),
               LAMBDA dependencies :
         AndThen(New(dependencies.st, constructor, dependencies.val, parameters),
                 LAMBDA made : StorePageController(made, ClassName(constructor))))

\* ----------------------------------------------------------- registrations
\* The register* calls the model makes: each a constructor and its
\* dependency declarations.

Banner == elements([container |-> selector("#banner", "HTMLDivElement")])
Inputs == elements([input |-> Fn("HTMLInputElement")])
Legacy == Obj([fields |-> htmlElementCollectionDescriptor(Str(".field"), "HTMLInputElement")])

ServiceRegistrations ==
  { <<"Cache", << >> >>,
    <<"Data", <<service("Cache")>> >>,
    <<"Data", <<value(Num(7)), service("Cache")>> >>,
    <<"Cache", <<service("Data")>> >>,
    <<"Broken", << >> >> }

MediatorRegistrations ==
  { <<"Banner", <<Banner, service("Cache")>> >>,
    <<"Banner", <<mediator("Form", Qualified("a"))>> >>,
    <<"Form", <<Inputs>> >>,
    <<"Form", <<value(Undefined), Legacy>> >>,
    <<"Form", <<mediator("Form", Undefined)>> >> }

PageControllerRegistrations ==
  { <<"Home", <<mediator("Banner", Undefined), service("Cache")>> >>,
    <<"Home", <<mediator("Banner", Undefined), mediator("Form", Qualified("a"))>> >>,
    <<"Home", <<mediator("Form", Qualified("a")), mediator("Form", Qualified("b")),
                mediator("Form", Qualified("a"))>> >>,
    <<"Home", <<value(Undefined), service("Data")>> >>,
    <<"Home", <<Legacy, value(Null), mediator("Form", Qualified("")),
                mediator("Form", Undefined)>> >>,
    <<"Admin", <<service("Cache")>> >> }

\* the names registerServiceInstance is called with
InstanceNames == {Undefined, Str("a")}

\* ------------------------------------------------------------------ actions

CurrentBoot == Len(boots)

\* the load() promises the suspended boot() awaits
Awaited == {k \in 1..Len(loads) : loads[k].boot = CurrentBoot /\ loads[k].wave = pc}

\* the continuation queued as soon as one awaited promise settles
MicrotaskQueuedOnFirst ==
  /\ pc # "idle"
  /\ \/ Awaited = {}
     \/ \E k \in Awaited : loads[k].status # "pending"

\* Promise.all has settled and the continuation of boot() is queued as a
\* microtask: it runs before any other task
MicrotaskQueued ==
  /\ pc # "idle"
  /\ \/ \A k \in Awaited : loads[k].status = "resolved"
     \/ \E k \in Awaited : loads[k].status = "rejected"

Init ==
  /\ created = FALSE
  /\ containersCreated = 0
  /\ onloadInstalls = 0
  /\ dom \in Documents
  /\ serviceDefinitions = << >>
  /\ mediatorDefinitions = << >>
  /\ pageControllerDefinitions = << >>
  /\ services = << >>
  /\ mediators = << >>
  /\ pageControllers = << >>
  /\ heap = << >>
  /\ resolutions = << >>
  /\ constructions = << >>
  /\ loads = << >>
  /\ pc = "idle"
  /\ boots = << >>
  /\ regCalls = [registerService |-> 0, registerMediator |-> 0,
                 registerPageController |-> 0, registerServiceInstance |-> 0]
  /\ InitOutside

\* Hydra.getInstance()
getInstance ==
  /\ ~MicrotaskQueued
  /\ created' = TRUE
  /\ containersCreated' = IF created THEN containersCreated ELSE containersCreated + 1
  /\ onloadInstalls' = IF created THEN onloadInstalls ELSE onloadInstalls + 1
  /\ UNCHANGED <<outside, dom, serviceDefinitions, mediatorDefinitions, pageControllerDefinitions,
                 services, mediators, pageControllers, heap, resolutions, constructions,
                 loads, pc, boots, regCalls>>

TotalRegCalls ==
  regCalls.registerService + regCalls.registerMediator
    + regCalls.registerPageController + regCalls.registerServiceInstance

CanRegister == created /\ TotalRegCalls < MaxRegs /\ ~MicrotaskQueued

registerService ==
  /\ CanRegister
  /\ \E r \in ServiceRegistrations :
       serviceDefinitions' = Register(serviceDefinitions, r[1], r[2], regCalls.registerService + 1)
  /\ regCalls' = [regCalls EXCEPT !.registerService = @ + 1]
  /\ UNCHANGED <<outside, created, containersCreated, onloadInstalls, dom,
                 mediatorDefinitions, pageControllerDefinitions,
                 services, mediators, pageControllers, heap, resolutions, constructions,
                 loads, pc, boots>>

registerMediator ==
  /\ CanRegister
  /\ \E r \in MediatorRegistrations :
       mediatorDefinitions' = Register(mediatorDefinitions, r[1], r[2], regCalls.registerMediator + 1)
  /\ regCalls' = [regCalls EXCEPT !.registerMediator = @ + 1]
  /\ UNCHANGED <<outside, created, containersCreated, onloadInstalls, dom,
                 serviceDefinitions, pageControllerDefinitions,
                 services, mediators, pageControllers, heap, resolutions, constructions,
                 loads, pc, boots>>

registerPageController ==
  /\ CanRegister
  /\ \E r \in PageControllerRegistrations :
       pageControllerDefinitions' = Register(pageControllerDefinitions, r[1], r[2], regCalls.registerPageController + 1)
  /\ regCalls' = [regCalls EXCEPT !.registerPageController = @ + 1]
  /\ UNCHANGED <<outside, created, containersCreated, onloadInstalls, dom,
                 serviceDefinitions, mediatorDefinitions,
                 services, mediators, pageControllers, heap, resolutions, constructions,
                 loads, pc, boots>>

\* an object the application built itself with `new c()`; it is recorded
\* when it enters a registry
UserObject(c) ==
  [cls |-> c, args |-> << >>, deps |-> << >>, boot |-> CurrentBoot, ok |-> TRUE, by |-> "user"]

\* registerServiceInstance(serv, name), serv a service object the application
\* holds: one it just built (x = 0), or object x of the heap
registerServiceInstance ==
  /\ CanRegister
  /\ \E name \in InstanceNames, x \in 0..Len(heap), c \in ServiceClasses :
       /\ x # 0 => heap[x].ok /\ heap[x].cls = c
       /\ IF Truthy(Lookup(services, getKey(c, name)))
          THEN UNCHANGED <<heap, services>>
          ELSE IF x = 0
          THEN /\ heap' = Append(heap, UserObject(c))
               /\ services' = Put(services, getKey(c, name), Inst(Len(heap) + 1))
          ELSE /\ heap' = heap
               /\ services' = Put(services, getKey(c, name), Inst(x))
  /\ regCalls' = [regCalls EXCEPT !.registerServiceInstance = @ + 1]
  /\ UNCHANGED <<outside, created, containersCreated, onloadInstalls, dom,
                 serviceDefinitions, mediatorDefinitions, pageControllerDefinitions,
                 mediators, pageControllers, resolutions, constructions, loads, pc, boots>>

\* ------------------------------------------------------------------- boot()

RECURSIVE constructServices(_, _, _)
\* Object.entries(this.serviceDefinitions).forEach(...) from entry i on
constructServices(ctx, defs, i) ==
  IF i > Len(defs) THEN Return(ctx, Undefined)
  ELSE AndThen(constructService(ctx, defs[i].val.ctor, defs[i].val.deps), LAMBDA r :
         constructServices(StoreService(r, defs[i].key).st, defs, i + 1))

RECURSIVE constructPageControllers(_, _, _)
\* Object.entries(this.pageControllerDefinitions).forEach(...) from entry i on
constructPageControllers(ctx, defs, i) ==
  IF i > Len(defs) THEN Return(ctx, Undefined)
  ELSE AndThen(constructPageController(ctx, defs[i].val.ctor, defs[i].val.deps), LAMBDA r :
         constructPageControllers(StorePageController(r, defs[i].key).st, defs, i + 1))

\* the two loops in the opposite order
ConstructPageControllersFirst(ctx, sdefs, pdefs) ==
  AndThen(constructPageControllers(ctx, pdefs, 1), LAMBDA r :
    constructServices(r.st, sdefs, 1))

\* the first loop only
ConstructServicesOnly(ctx, sdefs, pdefs) == constructServices(ctx, sdefs, 1)

\* the two forEach loops that open boot()
Construct(ctx, sdefs, pdefs) ==
  AndThen(constructServices(ctx, sdefs, 1), LAMBDA r :
    constructPageControllers(r.st, pdefs, 1))

\* the state of the promise boot() returned, and whether its catch block ran
Running == [state |-> "pending", failed |-> FALSE]
Completed == [state |-> "fulfilled", failed |-> FALSE]

\* a catch block that never returns: the promise of boot() stays pending
Hung == [state |-> "pending", failed |-> TRUE]

\* an exception that leaves boot()
Uncaught == [state |-> "rejected", failed |-> TRUE]

Caught == [state |-> "fulfilled", failed |-> TRUE]

\* the map left as it is
Keep(definitions) == definitions

\* this.serviceDefinitions = {} (and the two other maps)
Discard(definitions) == << >>

\* Object.values(registry): the instances load() is called on, one per
\* registry entry; a service without a load method gets Promise.resolve()
Loadables(registry, wave, hp) ==
  SelectSeq([k \in 1..Len(registry) |-> registry[k].val.v],
            LAMBDA x : wave # "services" \/ HasLoad(hp[x].cls))

\* one this.load(loadable) call with outcome o
LoadCall(x, wave, nr, o, hp) ==
  [inst |-> x, wave |-> wave, boot |-> nr,
   called |-> HasLoad(hp[x].cls),
   threw |-> HasLoad(hp[x].cls) /\ o = "threw",
   status |-> IF HasLoad(hp[x].cls) /\ o = "pending" THEN "pending" ELSE "rejected"]

\* the hooks called without the try of Hydra.load: the first one that throws
\* ends the map
LoadCallsUntilThrow(insts, wave, nr, outcome, hp) ==
  [k \in {j \in 1..Len(insts) : \A i \in 1..(j - 1) : outcome[i] # "threw"} |->
     LoadCall(insts[k], wave, nr, outcome[k], hp)]

\* this.load(loadable) for every instance of a wave: a synchronous throw, a
\* returned promise that is rejected or a missing load method gives a rejected
\* promise, any other returned value or promise a promise that settles later
LoadCalls(insts, wave, nr, outcome, hp) ==
  [k \in 1..Len(insts) |-> LoadCall(insts[k], wave, nr, outcome[k], hp)]

StartWave(insts, wave, nr, hp) ==
  /\ \E outcome \in [1..Len(insts) -> {"pending", "rejected", "threw"}] :
       loads' = loads \o LoadCalls(insts, wave, nr, outcome, hp)
  /\ pc' = wave

\* window.onload fires: boot() runs up to its first await
boot ==
  /\ created
  /\ pc = "idle"
  /\ CurrentBoot < MaxBoots
  /\ \E ctx \in {Construct(Ctx(services, mediators, pageControllers, heap, resolutions, constructions, dom,
                               mediatorDefinitions, CurrentBoot + 1),
                           serviceDefinitions, pageControllerDefinitions).st} :
        /\ services' = ctx.services
        /\ mediators' = ctx.mediators
        /\ pageControllers' = ctx.pageControllers
        /\ heap' = ctx.heap
        /\ resolutions' = ctx.resolutions
        /\ constructions' = ctx.constructions
        /\ IF ctx.threw
           THEN /\ boots' = Append(boots, Caught)
                /\ UNCHANGED <<loads, pc>>
           ELSE /\ boots' = Append(boots, Running)
                /\ StartWave(Loadables(ctx.services, "services", ctx.heap), "services",
                             CurrentBoot + 1, ctx.heap)
  /\ UNCHANGED <<outside, created, containersCreated, onloadInstalls, dom,
                 serviceDefinitions, mediatorDefinitions, pageControllerDefinitions, regCalls>>

\* boot() resumes after `await Promise.all(...)`
resume ==
  /\ MicrotaskQueued
  /\ UNCHANGED <<outside, created, containersCreated, onloadInstalls, dom,
                 services, mediators, pageControllers, heap, resolutions, constructions, regCalls>>
  /\ IF \E k \in Awaited : loads[k].status = "rejected"
     THEN /\ boots' = [boots EXCEPT ![CurrentBoot] = Caught]
          /\ pc' = "idle"
          /\ UNCHANGED <<loads, serviceDefinitions, mediatorDefinitions,
                         pageControllerDefinitions>>
     ELSE CASE pc = "services" ->
                 /\ StartWave(Loadables(mediators, "mediators", heap), "mediators",
                              CurrentBoot, heap)
                 /\ UNCHANGED <<boots, serviceDefinitions, mediatorDefinitions,
                                pageControllerDefinitions>>
            [] pc = "mediators" ->
                 /\ StartWave(Loadables(pageControllers, "pageControllers", heap),
                              "pageControllers", CurrentBoot, heap)
                 /\ UNCHANGED <<boots, serviceDefinitions, mediatorDefinitions,
                                pageControllerDefinitions>>
            [] pc = "pageControllers" ->
                 /\ serviceDefinitions' = Discard(serviceDefinitions)
                 /\ pageControllerDefinitions' = Discard(pageControllerDefinitions)
                 /\ mediatorDefinitions' = Discard(mediatorDefinitions)
                 /\ boots' = [boots EXCEPT ![CurrentBoot] = Completed]
                 /\ pc' = "idle"
                 /\ UNCHANGED loads

\* a promise returned by a load() hook settles
settle ==
  /\ ~MicrotaskQueued
  /\ \E k \in 1..Len(loads) :
       /\ loads[k].status = "pending"
       /\ \E outcome \in {"resolved", "rejected"} :
            loads' = [loads EXCEPT ![k].status = outcome]
  /\ UNCHANGED <<outside, created, containersCreated, onloadInstalls, dom,
                 serviceDefinitions, mediatorDefinitions, pageControllerDefinitions,
                 services, mediators, pageControllers, heap, resolutions, constructions, pc, boots,
                 regCalls>>

Next ==
  \/ getInstance
  \/ registerService
  \/ registerMediator
  \/ registerPageController
  \/ registerServiceInstance
  \/ boot
  \/ resume
  \/ settle

Spec == Init /\ [][Next]_vars

\* An application that registers constructors only, under the scheduling of
\* the event loop: the continuation of boot() is a microtask and runs as soon
\* as Promise.all has settled, and every promise a load() hook returned
\* settles at some time.
NextLive ==
  \/ getInstance
  \/ registerService
  \/ registerMediator
  \/ registerPageController
  \/ boot
  \/ resume
  \/ settle

SpecLive == Init /\ [][NextLive]_vars /\ WF_vars(resume) /\ WF_vars(settle)

\* --------------------------------------------- boots over marked documents
\* A second specification: the container exists, the page is one of several
\* documents carrying data-hydra-* markers, and the application registers
\* Mediators with element schemas and the PageControllers that ask for them.

\* the root of Form "a" marks a <div> as its input
DocMistyped ==
  << Node("HTMLFormElement", 0, [mediator |-> "Form", qualifier |-> "a"]),
     Node("HTMLDivElement", 1, [element |-> "input"]),
     Node("HTMLFormElement", 0, [mediator |-> "Form", qualifier |-> "b"]),
     Node("HTMLInputElement", 3, [element |-> "input"]) >>

\* markers no schema declares, one of them the name of a method every object
\* has, and an element without a marker
DocExtra ==
  << Node("HTMLDivElement", 0, [id |-> "banner", mediator |-> "Banner", element |-> "extra"]),
     Node("HTMLFormElement", 0, [mediator |-> "Form", qualifier |-> "a"]),
     Node("HTMLInputElement", 2, [element |-> "input"]),
     Node("HTMLSpanElement", 2, [element |-> "extra"]),
     Node("HTMLInputElement", 2, [element |-> "toString"]),
     Node("HTMLFormElement", 0, [mediator |-> "Form", qualifier |-> "b"]),
     Node("HTMLInputElement", 6, [element |-> "input"]),
     Node("HTMLInputElement", 6, [class |-> "field"]) >>

\* Mediator roots that carry an element marker themselves: the root of "a"
\* shares its value with a descendant, the root of "b" is the only carrier
DocRootMarked ==
  << Node("HTMLFormElement", 0, [mediator |-> "Form", qualifier |-> "a", element |-> "input"]),
     Node("HTMLInputElement", 1, [element |-> "input"]),
     Node("HTMLFormElement", 0, [mediator |-> "Form", qualifier |-> "b", element |-> "input"]) >>

ElementDocuments == {DocQualified, DocMistyped, DocExtra, DocRootMarked}

InputList == elements([input |-> collection("HTMLElement")])
Mixed ==
  elements([input |-> collection("HTMLInputElement"),
            container |-> selector("#banner", "HTMLDivElement")])
\* a schema whose selector-based entry matches nodes under both Form roots
Fields ==
  elements([fields |-> selectorAll(".field", "HTMLInputElement"),
            input |-> collection("HTMLInputElement")])
Missing == elements([input |-> Fn("HTMLInputElement"), submit |-> Fn("HTMLElement")])
Descriptor == htmlElementDescriptor(Str("#banner"), "HTMLDivElement")

\* legacy containers: the empty one, and one whose selector is the function
\* (options) => '#' + options.qualifier
Empty == Obj(<< >>)
ByQualifier ==
  Obj([form |-> htmlElementDescriptor(Fn("byQualifier"), "HTMLFormElement"),
       fields |-> htmlElementCollectionDescriptor(Str(".field"), "HTMLInputElement")])

ElementMediatorRegistrations ==
  { <<"Form", <<Inputs>> >>,
    <<"Form", <<InputList>> >>,
    <<"Form", <<Mixed>> >>,
    <<"Form", <<Fields>> >>,
    <<"Form", <<Missing>> >>,
    <<"Form", <<Empty, ByQualifier>> >>,
    <<"Form", <<value(Undefined), ByQualifier>> >>,
    <<"OtherForm", <<InputList, value(Num(7))>> >>,
    <<"Form", <<mediator("Banner", Undefined)>> >>,
    <<"Banner", <<mediator("Form", Undefined)>> >> }

ElementPageControllerRegistrations ==
  { <<"Home", <<mediator("Form", Qualified("a")), mediator("Form", Qualified("b"))>> >>,
    <<"Home", <<mediator("Form", Undefined)>> >>,
    <<"Home", <<value(Descriptor), mediator("Form", Qualified("b"))>> >> }

InitElements ==
  /\ created = TRUE
  /\ containersCreated = 1
  /\ onloadInstalls = 1
  /\ dom \in ElementDocuments
  /\ serviceDefinitions = << >>
  /\ mediatorDefinitions = << >>
  /\ pageControllerDefinitions = << >>
  /\ services = << >>
  /\ mediators = << >>
  /\ pageControllers = << >>
  /\ heap = << >>
  /\ resolutions = << >>
  /\ constructions = << >>
  /\ loads = << >>
  /\ pc = "idle"
  /\ boots = << >>
  /\ regCalls = [registerService |-> 0, registerMediator |-> 0,
                 registerPageController |-> 0, registerServiceInstance |-> 0]
  /\ InitOutside

\* registerMediator(constructor, dependencies) with an element schema
registerMediatorWithElements ==
  /\ CanRegister
  /\ \E r \in ElementMediatorRegistrations :
       mediatorDefinitions' =
         Register(mediatorDefinitions, r[1], r[2], regCalls.registerMediator + 1)
  /\ regCalls' = [regCalls EXCEPT !.registerMediator = @ + 1]
  /\ UNCHANGED <<outside, created, containersCreated, onloadInstalls, dom,
                 serviceDefinitions, pageControllerDefinitions, services, mediators,
                 pageControllers, heap, resolutions, constructions, loads, pc, boots>>

\* registerPageController(constructor, dependencies) asking for those Mediators
registerPageControllerWithMediators ==
  /\ CanRegister
  /\ \E r \in ElementPageControllerRegistrations :
       pageControllerDefinitions' =
         Register(pageControllerDefinitions, r[1], r[2], regCalls.registerPageController + 1)
  /\ regCalls' = [regCalls EXCEPT !.registerPageController = @ + 1]
  /\ UNCHANGED <<outside, created, containersCreated, onloadInstalls, dom,
                 serviceDefinitions, mediatorDefinitions, services, mediators,
                 pageControllers, heap, resolutions, constructions, loads, pc, boots>>

NextElements ==
  \/ registerService
  \/ registerMediatorWithElements
  \/ registerPageControllerWithMediators
  \/ boot
  \/ resume
  \/ settle

SpecElements == InitElements /\ [][NextElements]_vars

\* ------------------------------------------------------------ observations

\* the constructor calls the container made for class c, as heap positions
ContainerCalls(c) ==
  {k \in 1..Len(heap) : heap[k].by = "container" /\ heap[k].cls = c}

\* the lookups of service(S) that returned, as positions of resolutions
ServiceLookups(S) ==
  {k \in 1..Len(resolutions) :
     /\ isServiceDependencyDefinition(resolutions[k].decl)
     /\ resolutions[k].decl.v["serviceType"].v = S}

\* every lookup of S made so far returned one and the same instance, and a
\* getServiceInstance(S) call made now returns it too
SameServiceEverywhere(S) ==
  /\ \A j, k \in ServiceLookups(S) : resolutions[j].val = resolutions[k].val
  /\ \A k \in ServiceLookups(S) :
       getServiceInstance(services, heap, S, Undefined) = Ok(resolutions[k].val)

\* --------------------------------------------------------------------- C1

MediatorLookups(M) ==
  {k \in 1..Len(resolutions) :
     /\ isMediatorDependencyDefinition(resolutions[k].decl)
     /\ resolutions[k].decl.v["mediatorType"].v = M}

\* the qualifier lookup k asked for: a string, or undefined for none
AskedQualifier(k) == QualifierOf(resolutions[k].decl.v["options"])

\* the constructor calls of M made in boot b with qualifier q
QualifiedCalls(M, q, b) ==
  {k \in ContainerCalls(M) :
     heap[k].boot = b /\ QualifierOf(heap[k].args[Len(heap[k].args)]) = q}

\* the lookup names a qualifier string
Qualifies(k) == AskedQualifier(k).t = "string"

\* C2: for every Mediator type M, the lookups of M made in one boot return
\* the same instance of M whenever they ask for the same qualifier (or for
\* none), and distinct instances whenever they name different qualifiers; in
\* a boot the constructor of M is invoked at most once per qualifier.
C2_PerQualifier ==
  \A M \in MediatorClasses :
    /\ \A j, k \in MediatorLookups(M) :
         resolutions[j].boot = resolutions[k].boot =>
           /\ InstanceOf(heap, resolutions[k].val, M)
           /\ AskedQualifier(j) = AskedQualifier(k) => resolutions[j].val = resolutions[k].val
           /\ (Qualifies(j) /\ Qualifies(k) /\ AskedQualifier(j) # AskedQualifier(k))
              => resolutions[j].val # resolutions[k].val
    /\ \A k \in ContainerCalls(M) :
         QualifiedCalls(M, QualifierOf(heap[k].args[Len(heap[k].args)]), heap[k].boot) = {k}

\* in one boot a Mediator type was looked up twice with one qualifier and
\* once with another
C2_Witness ==
  \E M \in MediatorClasses : \E i, j, k \in MediatorLookups(M) :
    /\ i # j
    /\ resolutions[i].boot = resolutions[j].boot
    /\ resolutions[j].boot = resolutions[k].boot
    /\ Qualifies(i) /\ Qualifies(k)
    /\ AskedQualifier(i) = AskedQualifier(j)
    /\ AskedQualifier(i) # AskedQualifier(k)

\* --------------------------------------------------------------------- C3

\* what declaration d of a unit of class c resolves to; own is the options
\* object a Mediator was asked for with (undefined for the other units)
ResolutionOf(d, c, own) ==
  IF In("serviceType", d) THEN Lookup(services, ClassName(d.v["serviceType"].v))
  ELSE IF In("mediatorType", d)
    THEN Lookup(mediators, MediatorKey(d.v["mediatorType"].v, d.v["options"]))
  ELSE IF In("__elementSchema", d)
    THEN Then(resolveElementsFromSchema(dom, d, IF c \in MediatorClasses
                                                THEN Str(ClassName(c)) ELSE Undefined,
                                        QualifierOf(own)),
              LAMBDA found : validateElementsAgainstSchema(found, d, dom)).val
  ELSE IF In("value", d) THEN d.v["value"]
  ELSE pageElements(d, dom, 0, own).val

\* the arguments of constructor call k that answer its declarations: a Mediator
\* receives its options after them
DeclaredArguments(k) ==
  IF heap[k].cls \in MediatorClasses
  THEN SubSeq(heap[k].args, 1, Len(heap[k].args) - 1)
  ELSE heap[k].args

\* the options constructor call k was made with
OwnOptions(k) ==
  IF heap[k].cls \in MediatorClasses THEN heap[k].args[Len(heap[k].args)] ELSE Undefined

\* C3: every constructor the container invokes for a registration with
\* declarations d1..dn receives n arguments for them, the i-th being the
\* resolution of di, for every i in 1..n.
C3_Positional ==
  \A k \in 1..Len(heap) :
    heap[k].by = "container" =>
      /\ Len(DeclaredArguments(k)) = Len(heap[k].deps)
      /\ \A i \in 1..Len(heap[k].deps) :
           DeclaredArguments(k)[i] = ResolutionOf(heap[k].deps[i], heap[k].cls, OwnOptions(k))

\* --------------------------------------------------------------------- C4

\* the load() calls of one wave of boot b, as positions of loads
WaveCalls(wave, b) ==
  {k \in 1..Len(loads) : loads[k].wave = wave /\ loads[k].boot = b}

Settled(calls) == \A k \in calls : loads[k].status # "pending"

\* C4: in every boot, a Mediator load() hook is invoked only when every
\* Service load() hook of that boot has settled, and a PageController load()
\* hook only when every Mediator load() hook of that boot has settled.
C4_Waves ==
  \A b \in 1..Len(boots) :
    /\ WaveCalls("mediators", b) # {} => Settled(WaveCalls("services", b))
    /\ WaveCalls("pageControllers", b) # {} =>
         Settled(WaveCalls("services", b)) /\ Settled(WaveCalls("mediators", b))

\* a boot has reached its PageController wave after Service hooks and Mediator
\* hooks that had to settle first
C4_Witness ==
  \E b \in 1..Len(boots) :
    /\ WaveCalls("services", b) # {}
    /\ WaveCalls("mediators", b) # {}
    /\ WaveCalls("pageControllers", b) # {}

\* --------------------------------------------------------------------- C5

\* the wave that loads the instances of class c
WaveOf(c) ==
  IF c \in ServiceClasses THEN "services"
  ELSE IF c \in MediatorClasses THEN "mediators" ELSE "pageControllers"

\* C5, within one boot: the container invokes load() at most once on every
\* distinct instance object, in the wave of its kind, also when the object is
\* stored in a registry under more than one key.
C5_OncePerInstance ==
  \A j, k \in 1..Len(loads) :
    /\ loads[k].called => loads[k].wave = WaveOf(heap[loads[k].inst].cls)
    /\ (j # k /\ loads[j].called /\ loads[k].called /\ loads[j].boot = loads[k].boot)
       => loads[j].inst # loads[k].inst

\* --------------------------------------------------------------------- C6

\* the orders in which the entries of a definition map could have been
\* registered
Orders(definitions) ==
  {[i \in 1..Len(definitions) |-> definitions[o[i]]] :
     o \in {f \in [1..Len(definitions) -> 1..Len(definitions)] :
              \A i, j \in 1..Len(definitions) : i # j => f[i] # f[j]}}

\* construction of the registered units succeeds from the current registries
\* when the service definitions are taken in order sdefs
Constructs(sdefs) ==
  ~Construct(Ctx(services, mediators, pageControllers, heap, resolutions, constructions, dom,
                 mediatorDefinitions, CurrentBoot + 1),
             sdefs, pageControllerDefinitions).st.threw

\* a step in which boot() is called
BootCalled == Len(boots') = Len(boots) + 1

\* C6: a boot whose registrations can be constructed when the Services are
\* registered in some order constructs them in the order they were registered
\* in: a declared service(S) is constructed on demand.
C6_AnyOrder ==
  [][BootCalled /\ (\E sdefs \in Orders(serviceDefinitions) : Constructs(sdefs))
       => ~boots'[Len(boots')].failed]_vars

\* --------------------------------------------------------------------- C7

NoDefinitions ==
  /\ serviceDefinitions = << >>
  /\ mediatorDefinitions = << >>
  /\ pageControllerDefinitions = << >>

\* C7: a boot() call that follows a completed boot, with nothing registered
\* since, invokes no constructor and no load() hook, and a getInstance() call
\* on a page that has its container creates none and installs no trigger.
C7_SecondBootNoOp ==
  [][/\ (BootCalled /\ boots # << >> /\ boots[Len(boots)] = Completed /\ NoDefinitions)
          => heap' = heap /\ loads' = loads
     /\ created => /\ containersCreated' = containersCreated
                   /\ onloadInstalls' = onloadInstalls]_vars

\* --------------------------------------------------------------------- C8

\* the registry that holds the instances of class c
RegistryOf(c) ==
  IF c \in ServiceClasses THEN services
  ELSE IF c \in MediatorClasses THEN mediators ELSE pageControllers

\* the instance constructor call k returned is held by its registry
Registered(k) ==
  \E e \in 1..Len(RegistryOf(heap[k].cls)) : RegistryOf(heap[k].cls)[e].val = Inst(k)

\* C8: the promise of a boot() call never rejects, whatever a constructor, a
\* resolution or a load() hook threw, and every instance the container has
\* constructed is in its registry, also after a failure.
C8_Caught ==
  /\ \A b \in 1..Len(boots) : boots[b].state # "rejected"
  /\ \A k \in 1..Len(heap) : heap[k].by = "container" /\ heap[k].ok => Registered(k)

\* a boot has failed after it had constructed an instance, and the instance
\* is in its registry
C8_Witness ==
  \E b \in 1..Len(boots) :
    /\ boots[b] = Caught
    /\ \E k \in 1..Len(heap) :
         heap[k].by = "container" /\ heap[k].ok /\ heap[k].boot = b /\ Registered(k)

\* --------------------------------------------------------------------- C9

\* a step in which boot number b ends: its promise settles
BootEnds(b) ==
  /\ b \in 1..Len(boots')
  /\ boots'[b].state # "pending"
  /\ b \in 1..Len(boots) => boots[b].state = "pending"

\* C9, as stated: every run of the boot sequence ends with the service,
\* mediator and page-controller definition maps empty, also a run in which a
\* constructor, a resolution or a load() hook failed.
C9_AlwaysDiscarded ==
  [][\A b \in 1..MaxBoots : BootEnds(b) => NoDefinitions']_vars

\* C9, amended: a run of the boot sequence in which nothing failed ends with
\* the three definition maps empty; a run in which a constructor, a
\* resolution or a load() hook failed ends with the three maps as they were.
C9_DiscardedOnSuccess ==
  [][\A b \in 1..MaxBoots : BootEnds(b) =>
        IF boots'[b].failed
        THEN UNCHANGED <<serviceDefinitions, mediatorDefinitions, pageControllerDefinitions>>
        ELSE NoDefinitions']_vars

\* a run that failed has ended with a definition left, and a later run has
\* completed and left none
C9_Witness ==
  /\ Len(boots) = 2
  /\ boots[1] = Caught
  /\ boots[2] = Completed
  /\ \E k \in 1..Len(heap) : heap[k].by = "container" /\ heap[k].boot = 1
  /\ \E k \in 1..Len(heap) : heap[k].by = "container" /\ heap[k].boot = 2
  /\ NoDefinitions

\* -------------------------------------------------------------------- C10

\* the constructor calls a step makes, as positions of heap'
NewCalls == (Len(heap) + 1)..Len(heap')

\* the ordinal of the register* call that entered class c in a definition map
RegisteredAs(definitions, c) == Lookup(definitions, ClassName(c)).first

DefinitionsOf(c) ==
  IF c \in ServiceClasses THEN serviceDefinitions
  ELSE IF c \in MediatorClasses THEN mediatorDefinitions ELSE pageControllerDefinitions

\* the n-th register call of a kind took the map from before to after: one
\* name now holds the definition of call n, whether or not the name was
\* there, and every other name holds what it held
Replaces(before, after, n) ==
  \E name \in Keys(after) :
    /\ Lookup(after, name).call = n
    /\ Keys(after) = Keys(before) \cup {name}
    /\ \A other \in Keys(before) \ {name} : Lookup(after, other) = Lookup(before, other)

\* C11: a register call for a name that is already registered for its kind
\* raises nothing and replaces the definition of that name, every other name
\* keeping its own; the constructors a boot invokes are, with their
\* declarations, the ones stored under their names when boot was called, so
\* only the (constructor, deps) pair registered last for a name is constructed.
C11_SilentReplacement ==
  [][/\ regCalls'.registerService # regCalls.registerService
          => Replaces(serviceDefinitions, serviceDefinitions', regCalls'.registerService)
     /\ regCalls'.registerMediator # regCalls.registerMediator
          => Replaces(mediatorDefinitions, mediatorDefinitions', regCalls'.registerMediator)
     /\ regCalls'.registerPageController # regCalls.registerPageController
          => Replaces(pageControllerDefinitions, pageControllerDefinitions',
                      regCalls'.registerPageController)
     /\ BootCalled => \A k \in NewCalls :
          /\ ClassName(heap'[k].cls) \in Keys(DefinitionsOf(heap'[k].cls))
          /\ Lookup(DefinitionsOf(heap'[k].cls), ClassName(heap'[k].cls)).ctor = heap'[k].cls
          /\ Lookup(DefinitionsOf(heap'[k].cls), ClassName(heap'[k].cls)).deps = heap'[k].deps
    ]_vars

\* class OtherForm was registered under the name Form after another
\* definition of that name, and a boot has constructed OtherForm with the
\* declarations of that last call and no instance of the class replaced
C11_Witness ==
  /\ "Form" \in Keys(mediatorDefinitions)
  /\ Lookup(mediatorDefinitions, "Form").ctor = "OtherForm"
  /\ Lookup(mediatorDefinitions, "Form").first < Lookup(mediatorDefinitions, "Form").call
  /\ \E k \in ContainerCalls("OtherForm") :
       heap[k].deps = Lookup(mediatorDefinitions, "Form").deps
  /\ ContainerCalls("Form") = {}

\* -------------------------------------------------------------------- C12

\* declaration d is a ServiceRef or MediatorRef to a type that has no
\* definition of its kind and no instance in its registry
Unresolvable(d) ==
  \/ /\ isServiceDependencyDefinition(d)
     /\ ClassName(d.v["serviceType"].v) \notin Keys(serviceDefinitions)
     /\ ~Truthy(Lookup(services, ClassName(d.v["serviceType"].v)))
  \/ /\ isMediatorDependencyDefinition(d)
     /\ ClassName(d.v["mediatorType"].v) \notin Keys(mediatorDefinitions)
     /\ ~Truthy(Lookup(mediators, MediatorKey(d.v["mediatorType"].v, Get(d, "options"))))

\* one of the declarations deps is such a reference
RefersToUnregistered(deps) == \E i \in 1..Len(deps) : Unresolvable(deps[i])

\* the entries of a definition map that boot will construct: the names
\* without an instance in registry
ToConstruct(definitions, registry) ==
  {e \in 1..Len(definitions) : ~Truthy(Lookup(registry, definitions[e].key))}

\* the instances registry after holds and registry before did not
Added(before, after) ==
  {after[e].val : e \in 1..Len(after)} \ {before[e].val : e \in 1..Len(before)}

\* C12: when boot is called with a Service or PageController to construct
\* that declares a ServiceRef or MediatorRef to a type with no definition and
\* no instance, the resolution throws and the boot ends in its catch block;
\* no constructor is invoked for a unit that declares such a reference, and
\* no instance of such a unit enters a registry.
C12_UnregisteredThrows ==
  [][BootCalled =>
       /\ (\/ \E e \in ToConstruct(serviceDefinitions, services) :
                RefersToUnregistered(serviceDefinitions[e].val.deps)
           \/ \E e \in ToConstruct(pageControllerDefinitions, pageControllers) :
                RefersToUnregistered(pageControllerDefinitions[e].val.deps))
          => boots'[Len(boots')] = Caught
       /\ \A k \in NewCalls : ~RefersToUnregistered(heap'[k].deps)
       /\ \A x \in Added(services, services') \cup Added(mediators, mediators')
                     \cup Added(pageControllers, pageControllers') :
            x.t = "instance" /\ ~RefersToUnregistered(heap'[x.v].deps)
    ]_vars

\* a boot has failed on a PageController that declares a Mediator nobody
\* registered, after constructing a Service: the PageController's constructor
\* was not invoked and no PageController is registered
C12_Witness ==
  /\ boots # << >> /\ boots[Len(boots)] = Caught
  /\ \E e \in 1..Len(pageControllerDefinitions) :
       /\ \E i \in 1..Len(pageControllerDefinitions[e].val.deps) :
            /\ isMediatorDependencyDefinition(pageControllerDefinitions[e].val.deps[i])
            /\ Unresolvable(pageControllerDefinitions[e].val.deps[i])
       /\ ContainerCalls(pageControllerDefinitions[e].val.ctor) = {}
  /\ pageControllers = << >>
  /\ \E k \in 1..Len(heap) : heap[k].by = "container" /\ heap[k].boot = Len(boots)

\* -------------------------------------------------------------------- C13

\* the name resolveDependencies passes on for constructor call k
OwnName(k) ==
  IF heap[k].cls \in MediatorClasses THEN Str(ClassName(heap[k].cls)) ELSE Undefined

Range(f) == {f[x] : x \in DOMAIN f}

\* a discovered value as the sequence of its nodes
NodesOf(x) ==
  IF x = Undefined THEN << >>
  ELSE IF x.t = "array"
  THEN With(SelectSeq(x.v, LAMBDA y : y.t = "element"), LAMBDA els :
         [j \in 1..Len(els) |-> els[j].v])
  ELSE IF x.t = "element" THEN <<x.v>> ELSE << >>

\* the DOM nodes schema entry p matches for the unit (mediatorName, qualifier):
\* what its selector finds in the document, or what carries the marker p
\* under the unit's root
Located(entry, p, mediatorName, qualifier) ==
  IF isElementWithSelector(entry)
  THEN With(querySelectorAll(dom, 0, entry.v["selector"].v), LAMBDA found :
         IF entry.v["__collection"] = True THEN found
         ELSE SubSeq(found, 1, IF found = << >> THEN 0 ELSE 1))
  ELSE With(discoverElementsFromDataAttributes(dom, mediatorName, qualifier), LAMBDA m :
         IF m.ok /\ p \in DOMAIN m.val THEN NodesOf(m.val[p]) ELSE << >>)

\* an entry of schema matches a node that is not of the entry's type
MatchesWrongType(schema, mediatorName, qualifier) ==
  \E p \in DOMAIN schema.v["definition"].v :
    \E n \in Range(Located(schema.v["definition"].v[p], p, mediatorName, qualifier)) :
      ~InstanceOfElement(dom[n], getEntryType(schema.v["definition"].v[p]))

\* constructor call k was made for a unit none of whose element schemas
\* matches a node of the wrong type
RightlyTyped(k) ==
  \A i \in 1..Len(heap[k].deps) :
    isElementSchema(heap[k].deps[i])
      => ~MatchesWrongType(heap[k].deps[i], OwnName(k), QualifierOf(OwnOptions(k)))

\* C13: no constructor is invoked for a unit one of whose element-schema
\* entries matches a DOM node of the wrong element type, and every instance
\* in a registry comes from a constructor call that returned.
C13_TypedBeforeConstruction ==
  /\ \A k \in 1..Len(heap) : heap[k].by = "container" => RightlyTyped(k)
  /\ \A c \in MediatorClasses \cup PageControllerClasses \cup ServiceClasses :
       \A e \in 1..Len(RegistryOf(c)) :
         /\ RegistryOf(c)[e].val.t = "instance"
         /\ heap[RegistryOf(c)[e].val.v].ok

\* the page marks a <div> as the input of Form "a"; a boot entered the
\* construction of Form "a" for a schema that declares an HTMLInputElement
\* and failed with no constructor of Form invoked and no Mediator registered
C13_Witness ==
  /\ dom = DocMistyped
  /\ boots # << >> /\ boots[Len(boots)] = Caught
  /\ "Form" \in Keys(mediatorDefinitions)
  /\ Lookup(mediatorDefinitions, "Form").deps = <<Inputs>>
  /\ \E j \in 1..Len(constructions) :
       constructions[j].kind = "mediator" /\ constructions[j].key = "Form_a"
  /\ ContainerCalls("Form") = {}
  /\ mediators = << >>

\* -------------------------------------------------------------------- C14

Schemas == {Banner, Inputs, InputList, Mixed, Missing}

\* the (mediatorName, qualifier) pairs resolveDependencies passes on
Units ==
  {<<Str(ClassName(c)), q>> : c \in MediatorClasses, q \in {Undefined, Str("a"), Str("b")}}
    \cup {<<Undefined, Undefined>>}

\* what resolveDependencies pushes for an element schema
ResolvedSchema(schema, mediatorName, qualifier) ==
  Then(resolveElementsFromSchema(dom, schema, mediatorName, qualifier),
       LAMBDA found : validateElementsAgainstSchema(found, schema, dom))

\* x is a DOM element of the given type
IsElementOf(x, type) == x.t = "element" /\ InstanceOfElement(dom[x.v], type)

\* mapping binds every property schema declares: a single entry to an element
\* of its type, a collection entry to a list of elements of its type
WellBound(mapping, schema) ==
  /\ mapping.t = "object"
  /\ \A p \in DOMAIN schema.v["definition"].v :
       /\ p \in DOMAIN mapping.v
       /\ IF isElementCollection(schema.v["definition"].v[p])
          THEN /\ mapping.v[p].t = "array"
               /\ \A j \in 1..Len(mapping.v[p].v) :
                    IsElementOf(mapping.v[p].v[j], getEntryType(schema.v["definition"].v[p]))
          ELSE IsElementOf(mapping.v[p], getEntryType(schema.v["definition"].v[p]))

\* C14: on every document as it is when boot is first called (no operation of
\* the container changes it), the resolution of an element schema for a unit
\* throws or returns a mapping that binds every declared property to an
\* element of the declared type, or to a list of them for a collection entry,
\* and such a mapping is what every constructor invoked for a registration
\* with a schema has received for it.
C14_BoundOrThrows ==
  /\ boots = << >> =>
       \A schema \in Schemas, u \in Units :
         ResolvedSchema(schema, u[1], u[2]).ok
           => WellBound(ResolvedSchema(schema, u[1], u[2]).val, schema)
  /\ \A k \in 1..Len(heap) :
       heap[k].by = "container" =>
         \A i \in 1..Len(heap[k].deps) :
           isElementSchema(heap[k].deps[i]) => WellBound(heap[k].args[i], heap[k].deps[i])

\* on the page whose Form "b" has two inputs and no submit element, Form "b"
\* was constructed with the list of both for a collection entry, and the
\* schema that also declares submit does not resolve
C14_Witness ==
  /\ dom = DocQualified
  /\ ~ResolvedSchema(Missing, Str("Form"), Str("b")).ok
  /\ \E k \in ContainerCalls("Form") :
       /\ heap[k].deps = <<InputList>>
       /\ QualifierOf(OwnOptions(k)) = Str("b")
       /\ Len(heap[k].args[1].v["input"].v) = 2

\* -------------------------------------------------------------------- C15

\* the marker values discovery finds under the root of (mediatorName, qualifier)
DiscoveredNames(mediatorName, qualifier) ==
  With(discoverElementsFromDataAttributes(dom, mediatorName, qualifier), LAMBDA m :
    IF m.ok THEN DOMAIN m.val ELSE {})

\* the property names schema declares
Declared(schema) == DOMAIN schema.v["definition"].v

\* C15: a mapping an element schema resolves to has as its keys exactly the
\* property names the schema declares, whatever other markers the document
\* carries under the same root, and every constructor invoked for a
\* registration with a schema has received a mapping with exactly those keys.
C15_KeysAreDeclared ==
  /\ boots = << >> =>
       \A schema \in Schemas, u \in Units :
         ResolvedSchema(schema, u[1], u[2]).ok
           => DOMAIN ResolvedSchema(schema, u[1], u[2]).val.v = Declared(schema)
  /\ \A k \in 1..Len(heap) :
       heap[k].by = "container" =>
         \A i \in 1..Len(heap[k].deps) :
           isElementSchema(heap[k].deps[i])
             => DOMAIN heap[k].args[i].v = Declared(heap[k].deps[i])

\* Form "a" was constructed for a schema that declares input alone on the page
\* whose root of Form "a" also carries the marker extra
C15_Witness ==
  /\ dom = DocExtra
  /\ "extra" \in DiscoveredNames(Str("Form"), Str("a"))
  /\ \E k \in ContainerCalls("Form") :
       /\ heap[k].ok
       /\ heap[k].deps = <<Inputs>>
       /\ QualifierOf(OwnOptions(k)) = Str("a")
       /\ DOMAIN heap[k].args[1].v = {"input"}

\* -------------------------------------------------------------------- C16

\* the nodes under root that carry the element marker value v, in document
\* order
Carriers(root, v) ==
  SelectSeq(NodeIds(dom), LAMBDA i :
    /\ IsDescendant(dom, i, root)
    /\ HasAttr(dom[i], "element")
    /\ dom[i].attrs["element"] = v)

\* the marker values carried under root
MarkerValues(root) ==
  {dom[i].attrs["element"] : i \in {j \in 1..Len(dom) :
     IsDescendant(dom, j, root) /\ HasAttr(dom[j], "element") /\ dom[j].attrs["element"] # ""}}

\* C16: for every Mediator root of the page, discovery returns under each
\* element-marker value the nodes below the root that carry it: the node
\* itself when there is one, the list of them in document order when there
\* are several.
C16_GroupedInDocumentOrder ==
  \A m \in Range(discoverMediators(dom)) :
    \A v \in MarkerValues(m.rootElement) :
      /\ v \in DOMAIN m.elements
      /\ m.elements[v] =
           IF Len(Carriers(m.rootElement, v)) = 1
           THEN Elem(Carriers(m.rootElement, v)[1])
           ELSE Arr([k \in 1..Len(Carriers(m.rootElement, v)) |->
                       Elem(Carriers(m.rootElement, v)[k])])

\* -------------------------------------------------------------------- C17

\* the marker roots of Mediator M whose qualifier attribute is q
RootsOf(M, q) ==
  {r \in 1..Len(dom) :
     /\ HasAttr(dom[r], "mediator") /\ dom[r].attrs["mediator"] = M
     /\ getAttribute(dom[r], "qualifier") = q}

\* node n is a root of (M, q) or lies under one
Within(n, M, q) == \E r \in RootsOf(M, q) : n = r \/ IsDescendant(dom, n, r)

\* the nodes constructor call k received for the entries of the schema at
\* position i that satisfy Entry
ReceivedNodes(k, i, Entry(_)) ==
  UNION {Range(NodesOf(heap[k].args[i].v[p])) :
           p \in {q \in Declared(heap[k].deps[i]) : Entry(heap[k].deps[i].v["definition"].v[q])}}

\* the constructor calls made for a Mediator with a qualifier
QualifiedMediatorCalls ==
  {k \in 1..Len(heap) :
     /\ heap[k].by = "container"
     /\ heap[k].cls \in MediatorClasses
     /\ QualifierOf(OwnOptions(k)).t = "string"}

\* the PageController constructor calls whose declarations i and j ask for
\* one Mediator type with two different qualifiers got two instances
DistinctPerQualifier ==
  \A k \in 1..Len(heap) :
    heap[k].by = "container" /\ heap[k].cls \in PageControllerClasses =>
      \A i, j \in 1..Len(heap[k].deps) :
        /\ isMediatorDependencyDefinition(heap[k].deps[i])
        /\ isMediatorDependencyDefinition(heap[k].deps[j])
        /\ heap[k].deps[i].v["mediatorType"] = heap[k].deps[j].v["mediatorType"]
        /\ QualifierOf(heap[k].deps[i].v["options"]).t = "string"
        /\ QualifierOf(heap[k].deps[j].v["options"]).t = "string"
        /\ QualifierOf(heap[k].deps[i].v["options"]) # QualifierOf(heap[k].deps[j].v["options"])
        => /\ heap[k].args[i].t = "instance" /\ heap[k].args[j].t = "instance"
           /\ heap[k].args[i] # heap[k].args[j]

\* C17, as stated: a PageController that asks for mediator(M, a) and
\* mediator(M, b) gets two instances, and every element a qualified Mediator
\* instance received for a schema is a node of the root of M whose qualifier
\* attribute is its own qualifier.
C17_OwnRootOnly ==
  /\ DistinctPerQualifier
  /\ \A k \in QualifiedMediatorCalls :
       \A i \in 1..Len(heap[k].deps) :
         isElementSchema(heap[k].deps[i]) =>
           \A n \in ReceivedNodes(k, i, LAMBDA entry : TRUE) :
             Within(n, ClassName(heap[k].cls), QualifierOf(OwnOptions(k)))

\* C17, amended: the same for the attribute-based entries of the schema; what
\* a selector-based entry finds is looked up in the whole document.
C17_OwnRootForAttributes ==
  /\ DistinctPerQualifier
  /\ \A k \in QualifiedMediatorCalls :
       \A i \in 1..Len(heap[k].deps) :
         isElementSchema(heap[k].deps[i]) =>
           \A n \in ReceivedNodes(k, i, LAMBDA entry : ~isElementWithSelector(entry)) :
             Within(n, ClassName(heap[k].cls), QualifierOf(OwnOptions(k)))

\* on the page with the roots of Form "a" and Form "b", Home was constructed
\* with two instances of Form: "a" received the input of its root, "b" the
\* two inputs of its own
C17_Witness ==
  /\ dom = DocQualified
  /\ \E h \in ContainerCalls("Home"), ka, kb \in ContainerCalls("Form") :
       /\ heap[h].deps = <<mediator("Form", Qualified("a")), mediator("Form", Qualified("b"))>>
       /\ heap[h].args = <<Inst(ka), Inst(kb)>>
       /\ ka # kb
       /\ heap[ka].deps = <<InputList>> /\ heap[kb].deps = <<InputList>>
       /\ ReceivedNodes(ka, 1, LAMBDA entry : TRUE) = {3}
       /\ ReceivedNodes(kb, 1, LAMBDA entry : TRUE) = {5, 6}

\* -------------------------------------------------------------------- C18

\* declaration d was made by value(v)
IsLiteral(d) == d.t = "object" /\ DOMAIN d.v = {"value"}

\* C18: every constructor the container invokes for a registration whose
\* i-th declaration is value(v) receives, at position i, v itself, whatever v
\* is.
C18_LiteralUnchanged ==
  \A k \in 1..Len(heap) :
    heap[k].by = "container" =>
      \A i \in 1..Len(heap[k].deps) :
        IsLiteral(heap[k].deps[i]) =>
          /\ i <= Len(DeclaredArguments(k))
          /\ DeclaredArguments(k)[i] = heap[k].deps[i].v["value"]

\* -------------------------------------------------------------------- C19

\* C19: in a boot the construction of a registry key is entered at most once,
\* and never while the construction of the same key is on the call stack.
C19_NeverReentered ==
  \A j \in 1..Len(constructions) :
    /\ <<constructions[j].kind, constructions[j].key>> \notin constructions[j].open
    /\ \A i \in 1..(j - 1) :
         ~ /\ constructions[i].kind = constructions[j].kind
           /\ constructions[i].key = constructions[j].key
           /\ constructions[i].boot = constructions[j].boot

\* -------------------------------------------------------------------- C20

\* hydra.getMediatorInstance(mediator(M, options)) called by the application
\* in the current state
AskedNow(M, options) ==
  getMediatorInstance(Ctx(services, mediators, pageControllers, heap, resolutions,
                          constructions, dom, mediatorDefinitions, CurrentBoot),
                      mediator(M, options), 0)

\* the Mediator constructor calls that returned during the last boot
ConstructedInLastBoot ==
  {k \in 1..Len(heap) :
     /\ heap[k].by = "container" /\ heap[k].ok
     /\ heap[k].cls \in MediatorClasses
     /\ heap[k].boot = Len(boots)}

\* C20: once a boot has completed, getMediatorInstance called with the type
\* and options of a Mediator constructed during that boot returns that
\* instance: it does not throw and invokes no constructor.
C20_SameInstanceAfterBoot ==
  (boots # << >> /\ boots[Len(boots)] = Completed /\ pc = "idle") =>
    \A k \in ConstructedInLastBoot :
      /\ ~AskedNow(heap[k].cls, OwnOptions(k)).st.threw
      /\ AskedNow(heap[k].cls, OwnOptions(k)).val = Inst(k)
      /\ AskedNow(heap[k].cls, OwnOptions(k)).st.heap = heap

\* ------------------------------------------------- instances by name
\* A third specification: the application hands the container objects it
\* built itself, Services and Components, under names.

MaxInstanceCalls == 3

ComponentClasses == {"Panel", "Dialog"}

\* the names register*Instance and get*Instance are called with: none, the
\* empty string, and two names
LookupNames == {Undefined, Str(""), Str("a"), Str("b")}

\* the test a caller sees fail as `throw new Error('Could not find ...')`
getComponentInstance(comps, hp, componentType, name) ==
  With(Lookup(comps, getKey(componentType, name)), LAMBDA comp :
    IF ~Truthy(comp) \/ ~InstanceOf(hp, comp, componentType) THEN Throw ELSE Ok(comp))

InitInstances ==
  /\ created = TRUE
  /\ containersCreated = 1
  /\ onloadInstalls = 1
  /\ dom = DocQualified
  /\ serviceDefinitions = << >>
  /\ mediatorDefinitions = << >>
  /\ pageControllerDefinitions = << >>
  /\ services = << >>
  /\ mediators = << >>
  /\ pageControllers = << >>
  /\ heap = << >>
  /\ resolutions = << >>
  /\ constructions = << >>
  /\ loads = << >>
  /\ pc = "idle"
  /\ boots = << >>
  /\ regCalls = [registerService |-> 0, registerMediator |-> 0,
                 registerPageController |-> 0, registerServiceInstance |-> 0]
  /\ components = << >>
  /\ instanceCalls = << >>
  /\ InitListeners
  /\ InitSubComponents

\* the object the application passes: one it builds for the call (x = 0), or
\* object x of the heap, of class c
PassedObject(x, c) == IF x = 0 THEN Inst(Len(heap) + 1) ELSE Inst(x)

\* the call as the application made it
InstanceCall(method, x, c, name) ==
  [method |-> method, inst |-> PassedObject(x, c), cls |-> c, name |-> name]

\* registerServiceInstance(serv, name) for every name
registerServiceInstanceNamed ==
  /\ Len(instanceCalls) < MaxInstanceCalls
  /\ \E name \in LookupNames, x \in 0..Len(heap), c \in ServiceClasses :
       /\ x # 0 => heap[x].cls = c
       /\ heap' = IF x = 0 THEN Append(heap, UserObject(c)) ELSE heap
       /\ services' = IF Truthy(Lookup(services, getKey(c, name)))
                      THEN services
                      ELSE Put(services, getKey(c, name), PassedObject(x, c))
       /\ instanceCalls' = Append(instanceCalls, InstanceCall("registerServiceInstance", x, c, name))
  /\ UNCHANGED <<created, containersCreated, onloadInstalls, dom, serviceDefinitions,
                 mediatorDefinitions, pageControllerDefinitions, mediators, pageControllers,
                 resolutions, constructions, loads, pc, boots, regCalls, components,
                 listenerVars, subComponentVars>>

\* registerComponentInstance(component, name)
registerComponentInstance ==
  /\ Len(instanceCalls) < MaxInstanceCalls
  /\ \E name \in LookupNames, x \in 0..Len(heap), c \in ComponentClasses :
       /\ x # 0 => heap[x].cls = c
       /\ heap' = IF x = 0 THEN Append(heap, UserObject(c)) ELSE heap
       /\ components' = Put(components, getKey(c, name), PassedObject(x, c))
       /\ instanceCalls' = Append(instanceCalls, InstanceCall("registerComponentInstance", x, c, name))
  /\ UNCHANGED <<created, containersCreated, onloadInstalls, dom, serviceDefinitions,
                 mediatorDefinitions, pageControllerDefinitions, services, mediators,
                 pageControllers, resolutions, constructions, loads, pc, boots, regCalls,
                 listenerVars, subComponentVars>>

NextInstances ==
  \/ registerServiceInstanceNamed
  \/ registerComponentInstance

SpecInstances == InitInstances /\ [][NextInstances]_vars

\* ---- C21
\* the last register*Instance call, and the lookup matching its method
LastInstanceCall == instanceCalls[Len(instanceCalls)]

LookupInstance(method, cls, name) ==
  IF method = "registerServiceInstance"
  THEN getServiceInstance(services, heap, cls, name)
  ELSE getComponentInstance(components, heap, cls, name)

\* two names that name the same instance of a type: equal, or both empty or
\* absent
SameName(m, n) == m = n \/ (m \in {Undefined, Str("")} /\ n \in {Undefined, Str("")})

\* the calls of a method that passed an object of class cls under the name
CallsUnder(method, cls, name) ==
  {k \in 1..Len(instanceCalls) :
     /\ instanceCalls[k].method = method
     /\ instanceCalls[k].cls = cls
     /\ SameName(instanceCalls[k].name, name)}

Min(S) == CHOOSE k \in S : \A j \in S : k <= j

\* C21 as stated: after register*Instance(x, n) the lookup under n returns x,
\* and a lookup under another name, or under none, under which x was not
\* registered does not return x.
C21_LookupReturnsRegistered ==
  instanceCalls # << >> =>
    LET c == LastInstanceCall IN
      /\ LookupInstance(c.method, c.cls, c.name) = Ok(c.inst)
      /\ \A m \in LookupNames :
           /\ ~SameName(m, c.name)
           /\ \A k \in CallsUnder(c.method, c.cls, m) : instanceCalls[k].inst # c.inst
           => LookupInstance(c.method, c.cls, m) # Ok(c.inst)

\* C21 amended: after registerComponentInstance(x, n) the lookup under n
\* returns x; after registerServiceInstance(x, n) it returns the instance
\* that was registered first for (type of x, n), which is x when there was
\* none. A lookup under another name never returns an instance that was not
\* registered under that name, and throws when nothing was. The empty name
\* and no name are the same name.
C21_FirstServiceLastComponent ==
  instanceCalls # << >> =>
    LET c == LastInstanceCall IN
      /\ c.method = "registerComponentInstance"
           => LookupInstance(c.method, c.cls, c.name) = Ok(c.inst)
      /\ c.method = "registerServiceInstance"
           => LookupInstance(c.method, c.cls, c.name)
                = Ok(instanceCalls[Min(CallsUnder(c.method, c.cls, c.name))].inst)
      /\ \A m \in LookupNames :
           ~SameName(m, c.name) =>
             LET r == LookupInstance(c.method, c.cls, m) IN
               /\ CallsUnder(c.method, c.cls, m) = {} => r = Throw
               /\ r.ok => \E k \in CallsUnder(c.method, c.cls, m) : instanceCalls[k].inst = r.val

\* a Service registered under a name another Service object holds, and a
\* Component registered under a name another Component held
C21_Witness ==
  /\ Len(instanceCalls) = 3
  /\ instanceCalls[2].method = "registerComponentInstance"
  /\ instanceCalls[3].method = "registerComponentInstance"
  /\ instanceCalls[2].cls = instanceCalls[3].cls
  /\ instanceCalls[2].name = Str("a")
  /\ instanceCalls[3].name = Str("a")
  /\ instanceCalls[2].inst # instanceCalls[3].inst
  /\ instanceCalls[1].method = "registerServiceInstance"
  /\ instanceCalls[1].name = Str("b")
  /\ LookupInstance("registerServiceInstance", instanceCalls[1].cls, Str("a")) = Throw

\* the same key twice for Services
C21_SecondServiceWitness ==
  /\ Len(instanceCalls) = 2
  /\ \A k \in 1..2 : instanceCalls[k].method = "registerServiceInstance"
  /\ instanceCalls[1].cls = instanceCalls[2].cls
  /\ instanceCalls[1].name = Str("a")
  /\ instanceCalls[2].name = Str("a")
  /\ instanceCalls[1].inst # instanceCalls[2].inst

\* ------------------------------------------------- a Mediator's events
\* A fourth specification: one Mediator extending AbstractMediator, and the
\* code that listens to it.

MaxMediatorCalls == 4

Events == {"login", "notify"}

\* a listener function: one the application holds (sub = 0), or the handler
\* closure fromEvent made for subscription sub
Listener(fn) == [fn |-> fn, sub |-> 0]
Handler(k) == [fn |-> "handler", sub |-> k]

\* analytics and ui record the payload; once removes itself when invoked;
\* dismiss removes analytics when invoked
HeldListeners == {Listener("analytics"), Listener("ui"), Listener("once"), Listener("dismiss")}

\* this.#listeners[event] ?? []
ListenersForEvent(ls, event) ==
  With(Lookup(ls, event), LAMBDA a : IF a = Undefined THEN << >> ELSE a.v)

\* Array.prototype.indexOf, 0 for -1
IndexOf(a, x) ==
  IF \E i \in 1..Len(a) : a[i] = x THEN CHOOSE i \in 1..Len(a) : a[i] = x /\ \A j \in 1..(i - 1) : a[j] # x
  ELSE 0

\* a.splice(index, 1)
Splice(a, index) == [i \in 1..(Len(a) - 1) |-> IF i < index THEN a[i] ELSE a[i + 1]]

\* the listeners after addListener(event, listener)
Pushed(ls, event, listener) ==
  Put(ls, event, Arr(Append(ListenersForEvent(ls, event), listener)))

\* the array of the event left as it is
NotSpliced(ls, event, listener) == ls

\* the listeners after removeListener(event, listener): the array is changed
\* in place, an event that has none gets no entry
Spliced(ls, event, listener) ==
  With(IndexOf(ListenersForEvent(ls, event), listener), LAMBDA index :
    IF index # 0 THEN Put(ls, event, Arr(Splice(ListenersForEvent(ls, event), index)))
    ELSE ls)

\* a subscription to fromEvent(event), through take(1) or directly
Subscription(event, take) ==
  [event |-> event, take |-> take, closed |-> FALSE, received |-> 0]

\* the state the listeners run on
Listening(ls, subs) == [listeners |-> ls, subscriptions |-> subs]

\* Subscription.unsubscribe(): the teardown fromEvent returned runs once
Unsubscribed(st, k) ==
  IF st.subscriptions[k].closed THEN st
  ELSE Listening(Spliced(st.listeners, st.subscriptions[k].event, Handler(k)),
                 [st.subscriptions EXCEPT ![k].closed = TRUE])

\* subscriber.next(payload) of subscription k; take(1) completes, and so
\* unsubscribes, on the payload it lets through
Next1(st, k) ==
  IF st.subscriptions[k].closed THEN st
  ELSE With(Listening(st.listeners, [st.subscriptions EXCEPT ![k].received = @ + 1]), LAMBDA st1 :
         IF st.subscriptions[k].take THEN Unsubscribed(st1, k) ELSE st1)

\* listener(payload)
Invoke(st, event, listener) ==
  CASE listener.fn = "once" -> Listening(Spliced(st.listeners, event, listener), st.subscriptions)
    [] listener.fn = "dismiss" ->
         Listening(Spliced(st.listeners, event, Listener("analytics")), st.subscriptions)
    [] listener.fn = "handler" -> Next1(st, listener.sub)
    [] OTHER -> st

\* Array.prototype.forEach from index k on: len is read once, an index the
\* array no longer has is skipped, the element is read when its turn comes
RECURSIVE forEach(_, _, _, _, _)
forEach(st, event, k, len, invoked) ==
  IF k > len THEN [st |-> st, invoked |-> invoked]
  ELSE IF k > Len(ListenersForEvent(st.listeners, event))
  THEN forEach(st, event, k + 1, len, invoked)
  ELSE With(ListenersForEvent(st.listeners, event)[k], LAMBDA listener :
         forEach(Invoke(st, event, listener), event, k + 1, len, Append(invoked, listener)))

\* the call as it was made, with the listeners it found
MediatorCall(op, event, listener, invoked) ==
  [op |-> op, event |-> event, listener |-> listener, before |-> listeners,
   invoked |-> invoked]

CanCallMediator == Len(mediatorCalls) < MaxMediatorCalls

bootVars == <<created, containersCreated, onloadInstalls, dom, serviceDefinitions,
              mediatorDefinitions, pageControllerDefinitions, services, mediators,
              pageControllers, heap, resolutions, constructions, loads, pc, boots, regCalls>>

addListener ==
  /\ CanCallMediator
  /\ \E event \in Events, listener \in HeldListeners :
       /\ listeners' = Pushed(listeners, event, listener)
       /\ mediatorCalls' = Append(mediatorCalls, MediatorCall("addListener", event, listener, << >>))
  /\ UNCHANGED <<bootVars, components, instanceCalls, subscriptions, subComponentVars>>

removeListener ==
  /\ CanCallMediator
  /\ \E event \in Events, listener \in HeldListeners :
       /\ listeners' = Spliced(listeners, event, listener)
       /\ mediatorCalls' = Append(mediatorCalls, MediatorCall("removeListener", event, listener, << >>))
  /\ UNCHANGED <<bootVars, components, instanceCalls, subscriptions, subComponentVars>>

emit ==
  /\ CanCallMediator
  /\ \E event \in Events :
       With(forEach(Listening(listeners, subscriptions), event, 1,
                    Len(ListenersForEvent(listeners, event)), << >>), LAMBDA r :
         /\ listeners' = r.st.listeners
         /\ subscriptions' = r.st.subscriptions
         /\ mediatorCalls' = Append(mediatorCalls, MediatorCall("emit", event, Undefined, r.invoked)))
  /\ UNCHANGED <<bootVars, components, instanceCalls, subComponentVars>>

\* fromEvent(event).subscribe(...), or fromEvent(event).pipe(take(1)).subscribe(...)
subscribe ==
  /\ CanCallMediator
  /\ \E event \in Events, take \in BOOLEAN :
       /\ subscriptions' = Append(subscriptions, Subscription(event, take))
       /\ listeners' = Pushed(listeners, event, Handler(Len(subscriptions) + 1))
       /\ mediatorCalls' = Append(mediatorCalls,
            MediatorCall("subscribe", event, Handler(Len(subscriptions) + 1), << >>))
  /\ UNCHANGED <<bootVars, components, instanceCalls, subComponentVars>>

\* subscription.unsubscribe()
unsubscribe ==
  /\ CanCallMediator
  /\ \E k \in 1..Len(subscriptions) :
       With(Unsubscribed(Listening(listeners, subscriptions), k), LAMBDA st :
         /\ listeners' = st.listeners
         /\ subscriptions' = st.subscriptions
         /\ mediatorCalls' = Append(mediatorCalls,
              MediatorCall("unsubscribe", subscriptions[k].event, Handler(k), << >>)))
  /\ UNCHANGED <<bootVars, components, instanceCalls, subComponentVars>>

InitMediator ==
  /\ created = TRUE
  /\ containersCreated = 1
  /\ onloadInstalls = 1
  /\ dom = DocQualified
  /\ serviceDefinitions = << >>
  /\ mediatorDefinitions = << >>
  /\ pageControllerDefinitions = << >>
  /\ services = << >>
  /\ mediators = << >>
  /\ pageControllers = << >>
  /\ heap = << >>
  /\ resolutions = << >>
  /\ constructions = << >>
  /\ loads = << >>
  /\ pc = "idle"
  /\ boots = << >>
  /\ regCalls = [registerService |-> 0, registerMediator |-> 0,
                 registerPageController |-> 0, registerServiceInstance |-> 0]
  /\ InitOutside

NextMediator ==
  \/ addListener
  \/ removeListener
  \/ emit
  \/ subscribe
  \/ unsubscribe

SpecMediator == InitMediator /\ [][NextMediator]_vars

\* ---- C22
\* C22: every emit call invoked, once each and in the order of the array,
\* exactly the listeners the event had when emit was called, whatever the
\* listeners did during the delivery.
C22_EveryListenerOnce ==
  \A j \in 1..Len(mediatorCalls) :
    mediatorCalls[j].op = "emit" =>
      mediatorCalls[j].invoked = ListenersForEvent(mediatorCalls[j].before, mediatorCalls[j].event)

\* ---- C23
\* the calls between i and j that added the listener to the event again
AddedBetween(i, j, event, listener) ==
  {k \in (i + 1)..(j - 1) :
     /\ mediatorCalls[k].op = "addListener"
     /\ mediatorCalls[k].event = event
     /\ mediatorCalls[k].listener = listener}

\* C23: an emit that follows removeListener(event, l), with no addListener(event, l)
\* in between, does not invoke l.
C23_RemovedIsNotInvoked ==
  \A i \in 1..Len(mediatorCalls), j \in 1..Len(mediatorCalls) :
    /\ i < j
    /\ mediatorCalls[i].op = "removeListener"
    /\ mediatorCalls[j].op = "emit"
    /\ mediatorCalls[j].event = mediatorCalls[i].event
    /\ AddedBetween(i, j, mediatorCalls[i].event, mediatorCalls[i].listener) = {}
    => \A n \in 1..Len(mediatorCalls[j].invoked) : mediatorCalls[j].invoked[n] # mediatorCalls[i].listener

\* ---- C24
\* the listeners call j left
After(j) == IF j = Len(mediatorCalls) THEN listeners ELSE mediatorCalls[j + 1].before

\* the array without every occurrence of the listener
Without(a, listener) == SelectSeq(a, LAMBDA l : l # listener)

\* the call that subscribed Handler(k)
SubscribeCall(k) ==
  CHOOSE i \in 1..Len(mediatorCalls) :
    mediatorCalls[i].op = "subscribe" /\ mediatorCalls[i].listener = Handler(k)

\* C24: unsubscribing takes the handler of the subscription, and nothing
\* else, out of the listeners of its event; a subscription unsubscribed
\* right after it was made leaves every event's listeners as they were before
\* it; no handler of a closed subscription is left among the listeners, and
\* no emit after the unsubscribe call invokes it.
C24_UnsubscribeRestores ==
  /\ \A j \in 1..Len(mediatorCalls) :
       mediatorCalls[j].op = "unsubscribe" =>
         LET h == mediatorCalls[j].listener
             i == SubscribeCall(h.sub)
         IN /\ \A e \in Events :
                 ListenersForEvent(After(j), e) = Without(ListenersForEvent(mediatorCalls[j].before, e), h)
            /\ \A e \in Events : IndexOf(ListenersForEvent(mediatorCalls[i].before, e), h) = 0
            /\ ListenersForEvent(After(i), mediatorCalls[i].event)
                 = Append(ListenersForEvent(mediatorCalls[i].before, mediatorCalls[i].event), h)
            /\ j = i + 1 =>
                 \A e \in Events :
                   ListenersForEvent(After(j), e) = ListenersForEvent(mediatorCalls[i].before, e)
            /\ \A n \in (j + 1)..Len(mediatorCalls) :
                 mediatorCalls[n].op = "emit" => IndexOf(mediatorCalls[n].invoked, h) = 0
  /\ \A k \in 1..Len(subscriptions), e \in Events :
       subscriptions[k].closed => IndexOf(ListenersForEvent(listeners, e), Handler(k)) = 0

\* a listener, a subscription that received a payload, its unsubscription and
\* an emit that reaches the listener only
C24_Witness ==
  /\ Len(mediatorCalls) = 4
  /\ mediatorCalls[1].op = "subscribe"
  /\ mediatorCalls[2].op = "emit"
  /\ mediatorCalls[2].invoked = <<Handler(1)>>
  /\ mediatorCalls[3].op = "unsubscribe"
  /\ mediatorCalls[4].op = "emit"
  /\ mediatorCalls[4].event = mediatorCalls[1].event
  /\ mediatorCalls[4].invoked = << >>
  /\ ~subscriptions[1].take
  /\ subscriptions[1].received = 1

\* ------------------------------------------------------ subcomponents
\* A fifth specification: a parent Component that adds Components to two of
\* its elements and removes them.

MaxComponentCalls == 5

\* the child lists after node.remove()
Removed(ch, node) == [e \in DOMAIN ch |-> SelectSeq(ch[e], LAMBDA n : n # node)]

\* the child lists after element.appendChild(node): a node that has a parent
\* is taken out of it first
appendChild(ch, element, node) ==
  [Removed(ch, node) EXCEPT ![element] = Append(@, node)]

\* Array.from(element.children).map((child) => child.hydraComponent)
subComponentsInParentElement(ch, hc, parentElement) ==
  [i \in 1..Len(ch[parentElement]) |-> hc[ch[parentElement][i]]]

ComponentCall(op, c, parentElement) == [op |-> op, c |-> c, parentElement |-> parentElement]

addSubComponent ==
  /\ Len(componentCalls) < MaxComponentCalls
  /\ \E c \in SubComponents, parentElement \in ParentElements :
       /\ children' = appendChild(children, parentElement, rootElement(c))
       /\ componentCalls' = Append(componentCalls, ComponentCall("addSubComponent", c, parentElement))
  /\ UNCHANGED <<bootVars, components, instanceCalls, listenerVars, hydraComponent, destroyed>>

removeSubComponent ==
  /\ Len(componentCalls) < MaxComponentCalls
  /\ \E c \in SubComponents :
       /\ children' = Removed(children, rootElement(c))
       /\ hydraComponent' = [hydraComponent EXCEPT ![rootElement(c)] = Undefined]
       /\ destroyed' = [destroyed EXCEPT ![c] = @ + 1]
       /\ componentCalls' = Append(componentCalls, ComponentCall("removeSubComponent", c, ""))
  /\ UNCHANGED <<bootVars, components, instanceCalls, listenerVars>>

NextSubComponents ==
  \/ addSubComponent
  \/ removeSubComponent

\* the parent and the SubComponents are constructed; the container and the
\* Mediator are as new
InitParent == InitMediator

SpecSubComponents == InitParent /\ [][NextSubComponents]_vars

\* ---- C25
\* the calls made for Component c
CallsFor(c) == {k \in 1..Len(componentCalls) : componentCalls[k].c = c}

Max(S) == CHOOSE k \in S : \A j \in S : j <= k

\* the Components whose root elements are the children of the element, in
\* the order of the children
ComponentsIn(parentElement) ==
  [i \in 1..Len(children[parentElement]) |-> Inst(children[parentElement][i].root)]

\* C25: when the last call is removeSubComponent(c) and the call before it
\* for c was addSubComponent(c, e), the root of c is not a child of e,
\* destroy() was called on c once for every removeSubComponent(c), and
\* subComponentsInParentElement(e) is the Components still in e, in the order
\* of their roots.
C25_RemovedAndDestroyed ==
  LET n == Len(componentCalls) IN
    /\ n >= 2
    /\ componentCalls[n].op = "removeSubComponent"
    /\ CallsFor(componentCalls[n].c) \ {n} # {}
    /\ componentCalls[Max(CallsFor(componentCalls[n].c) \ {n})].op = "addSubComponent"
    => LET c == componentCalls[n].c
           e == componentCalls[Max(CallsFor(c) \ {n})].parentElement
       IN /\ \A i \in 1..Len(children[e]) : children[e][i] # rootElement(c)
          /\ destroyed[c] = Cardinality({k \in CallsFor(c) : componentCalls[k].op = "removeSubComponent"})
          /\ subComponentsInParentElement(children, hydraComponent, e) = ComponentsIn(e)

\* ---- C26
\* the load() calls of boot b
LoadsOf(b) == {n \in 1..Len(loads) : loads[n].boot = b}

NewLoads == (Len(loads) + 1)..Len(loads')

\* the keys of the Mediators the declarations name
ReferencedKeys(deps) ==
  {MediatorKey(deps[i].v["mediatorType"].v, Get(deps[i], "options")) :
     i \in {j \in 1..Len(deps) : isMediatorDependencyDefinition(deps[j])}}

\* C26: the container invokes no constructor in a boot that has invoked a
\* load() hook, and when a boot invokes its first load() hooks every
\* constructor call of the boot has returned, every registered Service and
\* PageController has its instance, and so has every Mediator that a
\* PageController or Mediator constructed in the boot refers to.
C26_ConstructedBeforeLoaded ==
  [][/\ \A k \in NewCalls : heap'[k].by = "container" => LoadsOf(heap'[k].boot) = {}
     /\ \A n \in NewLoads :
          \A k \in 1..Len(heap') :
            heap'[k].by = "container" /\ heap'[k].boot = loads'[n].boot =>
              /\ heap'[k].ok
              /\ (IF heap'[k].cls \in ServiceClasses THEN {} ELSE ReferencedKeys(heap'[k].deps))
                   \subseteq Keys(mediators')
     /\ BootCalled /\ NewLoads # {} =>
          /\ Keys(serviceDefinitions) \subseteq Keys(services')
          /\ Keys(pageControllerDefinitions) \subseteq Keys(pageControllers')]_vars

\* a boot that constructed a Service, a PageController and a Mediator has
\* invoked load() hooks of all three
C26_Witness ==
  \E b \in 1..Len(boots) :
    /\ \A w \in {"services", "mediators", "pageControllers"} :
         \E n \in WaveCalls(w, b) : loads[n].called /\ heap[loads[n].inst].boot = b
                                    /\ heap[loads[n].inst].by = "container"

\* ---- C27
\* the registry a wave goes through
RegistryOfWave(wave, sv, md, pcs) ==
  IF wave = "services" THEN sv ELSE IF wave = "mediators" THEN md ELSE pcs

\* a wave begins in this step
WaveBegins == pc' # pc /\ pc' # "idle"

\* C27: the step that begins a wave invokes load() once for every entry of
\* the wave's registry whose instance has a load method, whichever of the
\* hooks throw or return a promise that is rejected.
C27_EveryHookOfTheWave ==
  [][WaveBegins =>
       LET registry == RegistryOfWave(pc', services', mediators', pageControllers')
           entries == {e \in 1..Len(registry) : HasLoad(heap'[registry[e].val.v].cls)}
       IN /\ Len(loads') - Len(loads) = Cardinality(entries)
          /\ \A e \in entries :
               \E n \in NewLoads :
                 /\ loads'[n].inst = registry[e].val.v
                 /\ loads'[n].called
                 /\ loads'[n].wave = pc'
                 /\ loads'[n].boot = Len(boots')]_vars

\* a wave whose first hook threw, and whose second hook was invoked and
\* returned a promise that is pending or rejected
C27_Witness ==
  \E n \in 1..Len(loads) :
    /\ n < Len(loads)
    /\ loads[n].threw
    /\ loads[n + 1].wave = loads[n].wave
    /\ loads[n + 1].boot = loads[n].boot
    /\ loads[n + 1].called
    /\ ~loads[n + 1].threw

\* ---- C28
\* the MediatorRef declarations among the declarations
Refs(deps) == {deps[i] : i \in {j \in 1..Len(deps) : isMediatorDependencyDefinition(deps[j])}}

KeyOfRef(r) == MediatorKey(r.v["mediatorType"].v, Get(r, "options"))

\* the constructor calls of PageControllers that returned
ConstructedPageControllers ==
  {k \in 1..Len(heap) : heap[k].by = "container" /\ heap[k].ok /\ heap[k].cls \in PageControllerClasses}

\* the references of the constructed Mediators the references name
RefsOfConstructed(refs) ==
  UNION {Refs(heap[Lookup(mediators, KeyOfRef(r)).v].deps) :
           r \in {q \in refs : Lookup(mediators, KeyOfRef(q)) # Undefined}}

RECURSIVE ConstructedReach(_, _)
ConstructedReach(refs, n) ==
  IF n = 0 THEN refs ELSE ConstructedReach(refs \cup RefsOfConstructed(refs), n - 1)

\* the references the definitions of the named Mediator types declare
RefsOfDefined(mdefs, refs) ==
  UNION {Refs(Lookup(mdefs, ClassName(r.v["mediatorType"].v)).deps) :
           r \in {q \in refs : Lookup(mdefs, ClassName(q.v["mediatorType"].v)) # Undefined}}

RECURSIVE DefinedReach(_, _, _)
DefinedReach(mdefs, refs, n) ==
  IF n = 0 THEN refs ELSE DefinedReach(mdefs, refs \cup RefsOfDefined(mdefs, refs), n - 1)

\* the references the registered PageControllers declare, directly or through
\* the registered Mediators
ReferencedByRegistered ==
  DefinedReach(mediatorDefinitions,
               UNION {Refs(pageControllerDefinitions[i].val.deps) : i \in 1..Len(pageControllerDefinitions)},
               MaxRegs)

C28_FailedWitness ==
  /\ mediators # << >>
  /\ ConstructedPageControllers = {}

\* ---- C29
\* the value is the node, or a list the node is a member of
HoldsNode(found, i) ==
  \/ found = Elem(i)
  \/ found.t = "array" /\ \E k \in 1..Len(found.v) : found.v[k] = Elem(i)

\* C29: for every Mediator root of the page that carries an element marker
\* itself, the root is the element, or one of the elements, discovery returns
\* for that root under the marker's value.
C29_RootIsDiscovered ==
  \A m \in Range(discoverMediators(dom)) :
    Truthy(getAttribute(dom[m.rootElement], "element")) =>
      /\ getAttribute(dom[m.rootElement], "element").v \in DOMAIN m.elements
      /\ HoldsNode(m.elements[getAttribute(dom[m.rootElement], "element").v], m.rootElement)

\* ---- C30
\* a declaration that reaches the legacy branch of resolveDependencies
IsLegacyContainer(decl) ==
  /\ decl.t = "object"
  /\ ~isServiceDependencyDefinition(decl)
  /\ ~isMediatorDependencyDefinition(decl)
  /\ ~isElementSchema(decl)
  /\ \A p \in DOMAIN decl.v :
       /\ decl.v[p].t = "object"
       /\ {"selector", "type", "collection"} \subseteq DOMAIN decl.v[p].v
       /\ decl.v[p].v["collection"] \in {True, False}

\* the selector of a descriptor for a unit constructed with the options
SelectorFor(desc, options) ==
  IF desc.v["selector"].t = "function" THEN "#" \o options.v["qualifier"].v
  ELSE desc.v["selector"].v

\* the nodes of the whole document the selector matches, in document order
Selected(css) == SelectSeq(NodeIds(dom), LAMBDA i : Matches(dom[i], css))

\* what a direct lookup of the descriptor gives
LookedUp(desc, options) ==
  IF desc.v["collection"] = True
  THEN Arr([n \in 1..Len(Selected(SelectorFor(desc, options))) |->
              Elem(Selected(SelectorFor(desc, options))[n])])
  ELSE Elem(Selected(SelectorFor(desc, options))[1])

\* C30: every constructor the container invoked for a registration whose i-th
\* declaration is a legacy container received, as its i-th argument, an
\* object with the keys of the container, each holding what the direct
\* lookup of its selector in the document gives, a function selector being
\* applied to the options of the Mediator.
C30_LegacyAtItsPosition ==
  \A k \in 1..Len(heap) :
    heap[k].by = "container" =>
      \A i \in 1..Len(heap[k].deps) :
        IsLegacyContainer(heap[k].deps[i]) =>
          /\ i <= Len(DeclaredArguments(k))
          /\ DeclaredArguments(k)[i] =
               Obj([p \in DOMAIN heap[k].deps[i].v |->
                      LookedUp(heap[k].deps[i].v[p], OwnOptions(k))])

\* ---- C31
\* the lookups a step makes, as positions of resolutions'
NewResolutions == (Len(resolutions) + 1)..Len(resolutions')

\* the Service classes boot() finds a definition of
DefinedServices == {serviceDefinitions[k].val.ctor : k \in 1..Len(serviceDefinitions)}

\* the keys under which the service registry holds an instance of class S
KeysHolding(S) ==
  {services[k].key : k \in {j \in 1..Len(services) : InstanceOf(heap, services[j].val, S)}}

\* the step invokes no constructor of S, leaves the entry under key as it is
\* and answers every service(S) declaration with that entry
LeftAndInjected(S, key) ==
  /\ \A k \in NewCalls : heap'[k].cls # S
  /\ Lookup(services', key) = Lookup(services, key)
  /\ \A k \in NewResolutions :
       /\ isServiceDependencyDefinition(resolutions'[k].decl)
       /\ resolutions'[k].decl.v["serviceType"].v = S
       => resolutions'[k].val = Lookup(services, key)

\* C31, as stated: when the service registry holds an instance of a defined
\* Service type S at the time boot() is called, under whichever key
\* registerServiceInstance stored it, boot does not invoke the constructor of
\* S, the instance stays in the registry and it is the one injected into
\* dependents.
C31_HeldInstanceIsUsed ==
  [][BootCalled =>
       \A S \in DefinedServices : \A key \in KeysHolding(S) : LeftAndInjected(S, key)]_vars

\* C31, amended: when the service registry holds an instance under the type
\* name of a defined Service type S at the time boot() is called, boot does
\* not invoke the constructor of S, the entry stays as it is and it is the
\* one injected into dependents.
C31_InstanceUnderTypeNameIsUsed ==
  [][BootCalled =>
       \A S \in DefinedServices :
         Truthy(Lookup(services, ClassName(S))) => LeftAndInjected(S, ClassName(S))]_vars

\* a boot is under way that found a definition of S and an instance of S the
\* application had registered, and injected that instance into a dependent
C31_Witness ==
  /\ pc = "services"
  /\ \E S \in DefinedServices :
       \E k \in 1..Len(resolutions) :
         /\ resolutions[k].boot = CurrentBoot
         /\ isServiceDependencyDefinition(resolutions[k].decl)
         /\ resolutions[k].decl.v["serviceType"].v = S
         /\ resolutions[k].val = Lookup(services, ClassName(S))
         /\ heap[resolutions[k].val.v].by = "user"
         /\ ContainerCalls(S) = {}

\* ---- C32
\* the register* methods that take a constructor and its declarations
DefinitionMethods == {"registerService", "registerMediator", "registerPageController"}

\* the registration sets the model draws the arguments of method m from
RegistrationsOf(m) ==
  IF m = "registerService" THEN ServiceRegistrations
  ELSE IF m = "registerMediator" THEN MediatorRegistrations
  ELSE PageControllerRegistrations

\* a declaration that is of none of the kinds resolveDependencies looks for
OfNoKind(d) ==
  ~(\/ isServiceDependencyDefinition(d)
    \/ isMediatorDependencyDefinition(d)
    \/ isElementSchema(d)
    \/ isPageElementContainer(d)
    \/ isValueDependencyDefinition(d))

\* the call of method m made in this step returned after it stored
\* [constructor, deps] under the constructor's name, for some arguments of the
\* method, and touched no other entry of the map
StoredAndReturned(m, before, after) ==
  \E r \in RegistrationsOf(m) :
    /\ Lookup(after, ClassName(r[1])) # Undefined
    /\ Lookup(after, ClassName(r[1])).ctor = r[1]
    /\ Lookup(after, ClassName(r[1])).deps = r[2]
    /\ Lookup(after, ClassName(r[1])).call = regCalls'[m]
    /\ Keys(after) = Keys(before) \cup {ClassName(r[1])}
    /\ \A key \in Keys(before) \ {ClassName(r[1])} : Lookup(after, key) = Lookup(before, key)

\* C32: every call of registerService, registerMediator and
\* registerPageController returns with the definition stored, whatever its
\* declarations are, invokes no constructor and leaves the service, mediator,
\* page-controller and component instance registries as they are.
C32_RegistrationOnlyStores ==
  [][\A m \in DefinitionMethods :
       regCalls'[m] # regCalls[m] =>
         /\ StoredAndReturned(m,
               IF m = "registerService" THEN serviceDefinitions
               ELSE IF m = "registerMediator" THEN mediatorDefinitions
               ELSE pageControllerDefinitions,
               IF m = "registerService" THEN serviceDefinitions'
               ELSE IF m = "registerMediator" THEN mediatorDefinitions'
               ELSE pageControllerDefinitions')
         /\ heap' = heap
         /\ services' = services
         /\ mediators' = mediators
         /\ pageControllers' = pageControllers
         /\ components' = components]_vars

\* after a completed boot that left instances in the registries, a
\* PageController was registered with a declaration of no known kind and a
\* reference to a Service nobody registered
C32_Witness ==
  /\ boots = <<Completed>>
  /\ services # << >>
  /\ \E k \in 1..Len(pageControllerDefinitions) :
       /\ \E i \in 1..Len(pageControllerDefinitions[k].val.deps) :
            OfNoKind(pageControllerDefinitions[k].val.deps[i])
       /\ \E i \in 1..Len(pageControllerDefinitions[k].val.deps) :
            /\ isServiceDependencyDefinition(pageControllerDefinitions[k].val.deps[i])
            /\ Lookup(services,
                      pageControllerDefinitions[k].val.deps[i].v["serviceType"].v) = Undefined

\* ---- C33
\* C33: while a lifecycle wave of a boot is running, that is from the first
\* load() call of the boot until the boot ends, no entry is added to or
\* replaced in the service, mediator and page-controller registries, whatever
\* the load() hooks and the code they started call on the container.
C33_RegistriesFrozenInWaves ==
  [][pc # "idle" =>
       /\ services' = services
       /\ mediators' = mediators
       /\ pageControllers' = pageControllers]_vars

\* ---- C34
\* a boot() call whose promise has not settled
Unfinished == \E b \in 1..Len(boots) : boots[b].state = "pending"

\* C34: every boot() call either ends in the step that makes it, with its
\* promise settled, or is suspended in a wave and its promise settles later,
\* whatever was registered, provided every promise of a load() hook settles.
C34_BootFinishes ==
  /\ [][BootCalled =>
          \/ boots'[Len(boots')].state # "pending"
          \/ pc' # "idle"]_vars
  /\ [](pc = "idle" => ~Unfinished)
  /\ (Unfinished ~> ~Unfinished)

\* a boot has ended in which the construction of a Mediator was entered
\* while it was on the call stack, and another one that went through a wave
C34_Witness ==
  /\ ~Unfinished
  /\ \E j \in 1..Len(constructions) :
       /\ <<constructions[j].kind, constructions[j].key>> \in constructions[j].open
       /\ boots[constructions[j].boot] = Caught
  /\ \E n \in 1..Len(loads) : loads[n].called /\ loads[n].status # "pending"

\* ---- C35
\* the position of a wave in boot()
WaveNumber(wave) ==
  IF wave = "services" THEN 1 ELSE IF wave = "mediators" THEN 2 ELSE 3

\* the hook threw, or the promise it returned was rejected
Failed(n) == loads[n].threw \/ loads[n].status = "rejected"

\* C35: in every boot, a wave one of whose load() hooks threw or was rejected
\* is the last wave of that boot: no hook of a later wave is invoked in it,
\* and the boot ends in its catch block.
C35_FailedWaveIsTheLast ==
  \A n \in 1..Len(loads) :
    Failed(n) =>
      /\ \A m \in 1..Len(loads) :
           loads[m].boot = loads[n].boot =>
             WaveNumber(loads[m].wave) <= WaveNumber(loads[n].wave)
      /\ boots[loads[n].boot].state = "fulfilled" => boots[loads[n].boot].failed

\* a boot that constructed a Mediator and a PageController has ended after a
\* Service hook failed, with no hook of the Mediator or the PageController
\* invoked
C35_Witness ==
  \E b \in 1..Len(boots) :
    /\ boots[b] = Caught
    /\ \E n \in WaveCalls("services", b) : Failed(n)
    /\ \E k \in 1..Len(heap) :
         heap[k].boot = b /\ heap[k].ok /\ heap[k].cls \in MediatorClasses
    /\ \E k \in 1..Len(heap) :
         heap[k].boot = b /\ heap[k].ok /\ heap[k].cls \in PageControllerClasses
    /\ WaveCalls("mediators", b) = {}
    /\ WaveCalls("pageControllers", b) = {}

\* ------------------------------------------- references asked of the container
\* A further specification: two Mediator classes are registered, one of them
\* with the separator in its name, and the application asks the container for
\* their instances by reference.

MaxReferenceCalls == 3

\* class Form and class Form_a
ReferencedClasses == {"Form", "Form_a"}

\* the options a reference carries: none, or a qualifier
ReferenceOptions == {Undefined, Qualified("a"), Qualified("b"), Qualified("a_b")}

\* registerMediator(Form, []); registerMediator(Form_a, []) have been called
InitReferences ==
  /\ created = TRUE
  /\ containersCreated = 1
  /\ onloadInstalls = 1
  /\ dom = DocQualified
  /\ serviceDefinitions = << >>
  /\ mediatorDefinitions = Register(Register(<< >>, "Form", << >>, 1), "Form_a", << >>, 2)
  /\ pageControllerDefinitions = << >>
  /\ services = << >>
  /\ mediators = << >>
  /\ pageControllers = << >>
  /\ heap = << >>
  /\ resolutions = << >>
  /\ constructions = << >>
  /\ loads = << >>
  /\ pc = "idle"
  /\ boots = << >>
  /\ regCalls = [registerService |-> 0, registerMediator |-> 2,
                 registerPageController |-> 0, registerServiceInstance |-> 0]
  /\ InitOutside

\* hydra.getMediatorInstance(mediator(M, options)) called by the application
getMediatorInstanceCalled ==
  /\ Len(resolutions) < MaxReferenceCalls
  /\ \E M \in ReferencedClasses, options \in ReferenceOptions :
       \E r \in {Resolved(getMediatorInstance(
                             Ctx(services, mediators, pageControllers, heap, resolutions,
                                 constructions, dom, mediatorDefinitions, CurrentBoot),
                             mediator(M, options), 0),
                           mediator(M, options))} :
         /\ mediators' = r.st.mediators
         /\ heap' = r.st.heap
         /\ resolutions' = r.st.resolutions
         /\ constructions' = r.st.constructions
  /\ UNCHANGED <<outside, created, containersCreated, onloadInstalls, dom,
                 serviceDefinitions, mediatorDefinitions, pageControllerDefinitions,
                 services, pageControllers, loads, pc, boots, regCalls>>

NextReferences == getMediatorInstanceCalled

SpecReferences == InitReferences /\ [][NextReferences]_vars

\* ---- C36
\* the (type name, qualifier) pair of the reference that lookup k answered
PairOf(k) ==
  <<ClassName(resolutions[k].decl.v["mediatorType"].v),
    QualifierOf(Get(resolutions[k].decl, "options"))>>

\* the registry key constructMediator computed for lookup k
KeyOf(k) ==
  MediatorKey(resolutions[k].decl.v["mediatorType"].v, Get(resolutions[k].decl, "options"))

\* C36: two mediator references with different (type name, qualifier) pairs
\* map to different registry keys and resolve to different instances, also
\* when the type name or the qualifier contains '_'.
C36_PairsHaveTheirOwnKey ==
  \A j, k \in 1..Len(resolutions) :
    PairOf(j) # PairOf(k) =>
      /\ KeyOf(j) # KeyOf(k)
      /\ resolutions[j].val # resolutions[k].val

\* ---- C37
\* the lookups that returned the instance constructor call k made
LookupsOf(k) ==
  {n \in 1..Len(resolutions) :
     isMediatorDependencyDefinition(resolutions[n].decl) /\ resolutions[n].val = Inst(k)}

\* the options of the MediatorRef whose lookup constructed instance k: the
\* first lookup that returned it
TriggeringOptions(k) ==
  Get(resolutions[CHOOSE n \in LookupsOf(k) : \A o \in LookupsOf(k) : n <= o].decl, "options")

\* C37: the container calls a Mediator constructor registered with
\* declarations d1..dn with n + 1 arguments, the resolutions of d1..dn in this
\* order and then the options of the MediatorRef whose lookup constructed it
\* (undefined when it carries none); it calls a Service or PageController
\* constructor with no argument beyond those of its declarations.
C37_OptionsAfterDeclarations ==
  \A k \in 1..Len(heap) :
    heap[k].by = "container" /\ heap[k].ok =>
      IF LookupsOf(k) # {}
      THEN /\ Len(heap[k].args) = Len(heap[k].deps) + 1
           /\ heap[k].args[Len(heap[k].deps) + 1] = TriggeringOptions(k)
           /\ \A i \in 1..Len(heap[k].deps) :
                heap[k].args[i] = ResolutionOf(heap[k].deps[i], heap[k].cls, TriggeringOptions(k))
      ELSE Len(heap[k].args) <= Len(heap[k].deps)

\* ---- C38
\* the marker roots a reference to (M, q) can take its elements from: every
\* root of M for a reference without qualifier, the roots whose qualifier
\* attribute is q otherwise
CandidateRoots(M, q) ==
  {r \in 1..Len(dom) :
     /\ HasAttr(dom[r], "mediator") /\ dom[r].attrs["mediator"] = M
     /\ (q = Undefined \/ getAttribute(dom[r], "qualifier") = q)}

\* the qualifiers a reference is made with: none, those of the documents and
\* one no document has
AskedQualifiers == {Undefined, Str("a"), Str("b"), Str("c")}

\* the schema at position i of constructor call k has attribute-based entries
HasAttributeEntries(k, i) ==
  /\ isElementSchema(heap[k].deps[i])
  /\ \E p \in Declared(heap[k].deps[i]) :
       ~isElementWithSelector(heap[k].deps[i].v["definition"].v[p])

\* C38: the discovery for a reference to Mediator type M without qualifier
\* returns the elements of the first root in document order marked M, whether
\* or not it carries a qualifier attribute; for a reference with qualifier q
\* it returns those of the first root marked M whose qualifier attribute is
\* q, and throws when there is none.  Every Mediator the container
\* constructs received, for the attribute-based entries of its schema, nodes
\* of that root only.
C38_FirstRootOfTheReference ==
  /\ boots = << >> =>
       \A M \in {"Form", "Banner"}, q \in AskedQualifiers :
         discoverElementsFromDataAttributes(dom, Str(M), q) =
           IF CandidateRoots(M, q) = {} THEN Throw
           ELSE Ok(DiscoveredMediator(dom, Min(CandidateRoots(M, q))).elements)
  /\ \A k \in 1..Len(heap) :
       heap[k].by = "container" /\ heap[k].cls \in MediatorClasses =>
         \A i \in 1..Len(heap[k].deps) :
           HasAttributeEntries(k, i) =>
             /\ CandidateRoots(ClassName(heap[k].cls), QualifierOf(OwnOptions(k))) # {}
             /\ \A n \in ReceivedNodes(k, i, LAMBDA entry : ~isElementWithSelector(entry)) :
                  \/ n = Min(CandidateRoots(ClassName(heap[k].cls), QualifierOf(OwnOptions(k))))
                  \/ IsDescendant(dom, n,
                                  Min(CandidateRoots(ClassName(heap[k].cls),
                                                     QualifierOf(OwnOptions(k)))))

\* a Form asked for without qualifier was constructed with the input of the
\* first Form root of the page, a root that carries the qualifier "a", while
\* the page has a second Form root with inputs of its own
C38_Witness ==
  /\ dom = DocQualified
  /\ \E k \in ContainerCalls("Form") :
       /\ LookupsOf(k) # {}
       /\ TriggeringOptions(k) = Undefined
       /\ heap[k].deps = <<InputList>>
       /\ ReceivedNodes(k, 1, LAMBDA entry : TRUE) = {3}
       /\ getAttribute(dom[Min(CandidateRoots("Form", Undefined))], "qualifier") = Str("a")
       /\ CandidateRoots("Form", Str("c")) = {}

\* ---- C39
\* what the selector of a schema entry matches in the whole document: the
\* list of the matches for a collection entry, the first match otherwise
InDocument(entry) ==
  IF entry.v["__collection"] = True
  THEN Arr([n \in 1..Len(Selected(entry.v["selector"].v)) |->
              Elem(Selected(entry.v["selector"].v)[n])])
  ELSE Elem(Selected(entry.v["selector"].v)[1])

\* the selector-based entries of the schema at position i of call k
SelectorEntries(k, i) ==
  {p \in Declared(heap[k].deps[i]) :
     isElementWithSelector(heap[k].deps[i].v["definition"].v[p])}

\* C39: every Mediator the container constructed for a registration with an
\* element schema received, for each selector-based entry of the schema, what
\* the selector matches in the whole document, wherever its marker root is;
\* two instances of one registration constructed for different qualifiers
\* received the same elements for every selector-based entry.
C39_SelectorsAreDocumentWide ==
  /\ \A k \in 1..Len(heap) :
       heap[k].by = "container" /\ heap[k].cls \in MediatorClasses =>
         \A i \in 1..Len(heap[k].deps) :
           isElementSchema(heap[k].deps[i]) =>
             \A p \in SelectorEntries(k, i) :
               heap[k].args[i].v[p] = InDocument(heap[k].deps[i].v["definition"].v[p])
  /\ \A j, k \in QualifiedMediatorCalls :
       /\ heap[j].cls = heap[k].cls
       /\ heap[j].deps = heap[k].deps
       /\ QualifierOf(OwnOptions(j)) # QualifierOf(OwnOptions(k))
       => \A i \in 1..Len(heap[k].deps) :
            isElementSchema(heap[k].deps[i]) =>
              \A p \in SelectorEntries(k, i) : heap[j].args[i].v[p] = heap[k].args[i].v[p]

\* Form "a" and Form "b" were constructed for one schema on the page where
\* each root has inputs of class field: both received the three inputs of
\* the page for the selector entry, and each the inputs of its own root for
\* the attribute entry
C39_Witness ==
  /\ dom = DocQualified
  /\ \E ka, kb \in ContainerCalls("Form") :
       /\ heap[ka].deps = <<Fields>> /\ heap[kb].deps = <<Fields>>
       /\ OwnOptions(ka) = Qualified("a") /\ OwnOptions(kb) = Qualified("b")
       /\ heap[ka].args[1].v["fields"] = Arr(<<Elem(3), Elem(5), Elem(6)>>)
       /\ heap[kb].args[1].v["fields"] = Arr(<<Elem(3), Elem(5), Elem(6)>>)
       /\ NodesOf(heap[ka].args[1].v["input"]) = <<3>>
       /\ NodesOf(heap[kb].args[1].v["input"]) = <<5, 6>>

====
